---- MODULE Spec2Model ----
(***************************************************************************)
(* Model of xcw: the session tracker (package session), the session events *)
(* (package domain), the watch command, its lines and its exit (package    *)
(* cli), the filters (package filter), the output rotation and the resume  *)
(* file (package cli) and the pattern store (package output).  Each        *)
(* component is a state machine of its own with its own specification:     *)
(* Spec drives the tracker, WatchSpec the loop of WatchCmd.Run, and so on. *)
(***************************************************************************)
EXTENDS Integers, Sequences, FiniteSets, TLC

VARIABLES
    tracker,      \* the fields of session.Tracker
    now,          \* the wall clock read by time.Now(), in seconds
    calls,        \* number of CheckEntry calls made so far
    lastCall,     \* the most recent CheckEntry call: argument, state before, result
    history,      \* what the calls so far were, as far as the claims need it
    out,          \* the lifecycle lines the tail loop has written
    final,        \* Running, or what GetFinalSummary returned at shutdown
    watch,        \* the locals of WatchCmd.Run
    procs,        \* the trigger commands started by runTrigger, by id
    stdout,       \* the lines written to globals.Stdout / the writer
    dedupe,       \* the fields of filter.DedupeFilter
    checks,       \* number of DedupeFilter.Check calls made so far
    checked,      \* the Check calls since the filter was created or Reset
    where,        \* a call of ParseWhereClause: its argument and what it returned
    pipeline,     \* a filter pipeline: its configuration, the Match calls made
    emit,         \* the contexts writing events to one io.Writer
    sink,         \* what that io.Writer holds, in pieces of lines
    jsonLine,     \* one line watch.go formats: its kind, its texts, its bytes
    run,          \* one run of the process: flags, position, events, exit code
    rotation,     \* the fields of cli.rotation
    files,        \* the output files: open or closed, and their content
    resume,       \* the resume file and the save and load running on it
    store,        \* the patterns of output.PatternStore
    recorders,    \* the goroutines calling RecordPattern
    wf,           \* a call of NewWhereFilter and the Match calls on its result
    reports,      \* what the last two GetPendingDuplicates calls returned
    shared,       \* a Tracker used by several goroutines: its mutex and fields
    callers,      \* the goroutines calling the methods of that Tracker
    rmw           \* a read-modify-write of the resume file

vars == <<tracker, now, calls, lastCall, history, out, final,
          watch, procs, stdout, dedupe, checks, checked, where, pipeline,
          emit, sink, jsonLine, run, rotation, files, resume, store, recorders,
          wf, reports, shared, callers, rmw>>

trackerVars == <<tracker, calls, lastCall, history, out, final>>
watchVars == <<watch, procs, stdout>>
dedupeVars == <<dedupe, checks, checked, reports>>
filterVars == <<where, pipeline>>
emitVars == <<emit, sink>>
jsonVars == <<jsonLine>>
runVars == <<run>>
rotationVars == <<rotation, files>>
resumeVars == <<resume>>
storeVars == <<store, recorders>>
whereVars == <<wf>>
concVars == <<shared, callers>>
rmwVars == <<rmw>>

\* What the actions of one component leave alone.
otherThanTracker ==
    <<watchVars, dedupeVars, filterVars, emitVars, jsonVars, runVars,
    rotationVars, resumeVars, storeVars, whereVars, concVars, rmwVars>>
otherThanWatch ==
    <<trackerVars, dedupeVars, filterVars, emitVars, jsonVars, runVars,
    rotationVars, resumeVars, storeVars, whereVars, concVars, rmwVars>>
otherThanDedupe ==
    <<trackerVars, watchVars, filterVars, emitVars, jsonVars, runVars,
    rotationVars, resumeVars, storeVars, whereVars, concVars, rmwVars>>
otherThanFilter ==
    <<trackerVars, watchVars, dedupeVars, emitVars, jsonVars, runVars,
    rotationVars, resumeVars, storeVars, whereVars, concVars, rmwVars>>
otherThanEmit ==
    <<trackerVars, watchVars, dedupeVars, filterVars, jsonVars, runVars,
    rotationVars, resumeVars, storeVars, whereVars, concVars, rmwVars>>
otherThanJson ==
    <<trackerVars, watchVars, dedupeVars, filterVars, emitVars, runVars,
    rotationVars, resumeVars, storeVars, whereVars, concVars, rmwVars>>
otherThanRun ==
    <<trackerVars, watchVars, dedupeVars, filterVars, emitVars, jsonVars,
    rotationVars, resumeVars, storeVars, whereVars, concVars, rmwVars>>
otherThanRotation ==
    <<trackerVars, watchVars, dedupeVars, filterVars, emitVars, jsonVars,
    runVars, resumeVars, storeVars, whereVars, concVars, rmwVars>>
otherThanResume ==
    <<trackerVars, watchVars, dedupeVars, filterVars, emitVars, jsonVars,
    runVars, rotationVars, storeVars, whereVars, concVars, rmwVars>>
otherThanStore ==
    <<trackerVars, watchVars, dedupeVars, filterVars, emitVars, jsonVars,
    runVars, rotationVars, resumeVars, whereVars, concVars, rmwVars>>
otherThanWhere ==
    <<trackerVars, watchVars, dedupeVars, filterVars, emitVars, jsonVars,
    runVars, rotationVars, resumeVars, storeVars, concVars, rmwVars>>
otherThanConc ==
    <<trackerVars, watchVars, dedupeVars, filterVars, emitVars, jsonVars,
    runVars, rotationVars, resumeVars, storeVars, whereVars, rmwVars>>
otherThanRmw ==
    <<trackerVars, watchVars, dedupeVars, filterVars, emitVars, jsonVars,
    runVars, rotationVars, resumeVars, storeVars, whereVars, concVars>>

-----------------------------------------------------------------------------
(* Bounds of the model *)

MaxEntries == 3
MaxReceives == 2
MaxTime == 1
MaxCooldown == 1
MaxCommands == 2

-----------------------------------------------------------------------------
(* Strings are sequences of characters, so that prefixes are computed. *)

App == <<"c", "o", "m", ".", "e", "x">>

\* A nil pointer.
Nil == [Type |-> "nil"]

\* The tail loop has not shut down.
Running == [Type |-> "running"]

Subsystems ==
    { App,
      App \o <<".", "u", "i">>,
      App \o <<"a", "m", "p", "l", "e">>,
      <<"o", "r", "g">> }

LogLevelInfo == "Info"
LogLevelError == "Error"
LogLevelFault == "Fault"

Levels == {LogLevelInfo, LogLevelError, LogLevelFault}

UUIDs == {"UUID-1", "UUID-2"}

\* 0 is the PID of an entry whose processID is absent.
PIDs == {0, 111, 222}

LogEntries ==
    [Subsystem : Subsystems, PID : PIDs, ProcessImageUUID : UUIDs, Level : Levels]

-----------------------------------------------------------------------------
(* package domain: session events *)

SessionSummary(total, errors, faults, duration) ==
    [TotalLogs |-> total, Errors |-> errors, Faults |-> faults,
     DurationSeconds |-> duration]

NewSessionStart(session, pid, previousPID) ==
    LET s == [Type |-> "session_start", SchemaVersion |-> 1, Alert |-> "",
              Session |-> session, PID |-> pid, PreviousPID |-> 0]
    IN  IF previousPID > 0
        THEN [s EXCEPT !.Alert = "APP_RELAUNCHED", !.PreviousPID = previousPID]
        ELSE s

NewSessionEnd(session, pid, summary) ==
    [Type |-> "session_end", SchemaVersion |-> 1, Session |-> session,
     PID |-> pid, Summary |-> summary]

-----------------------------------------------------------------------------
(* package session: Tracker *)

NewTracker ==
    [currentSession |-> 0, currentPID |-> 0, sessionStart |-> 0,
     logCount |-> 0, errorCount |-> 0, faultCount |-> 0,
     initialized |-> FALSE]

matchesApp(subsystem) ==
    /\ Len(subsystem) >= Len(App)
    /\ SubSeq(subsystem, 1, Len(App)) = App

updateCounts(t, entry) ==
    CASE entry.Level = LogLevelError -> [t EXCEPT !.errorCount = @ + 1]
      [] entry.Level = LogLevelFault -> [t EXCEPT !.faultCount = @ + 1]
      [] OTHER -> t

\* The guard of the first branch of CheckEntry: the entry is not tracked.
notTracked(entry) ==
    entry.Subsystem # App /\ ~matchesApp(entry.Subsystem)

pidChangedTestsCurrentPID(t, pid) ==
    pid # t.currentPID /\ t.currentPID > 0

pidChangedAnyPID(t, pid) ==
    pid # t.currentPID

\* The guard of the relaunch branch.
pidChanged(t, pid) ==
    pid # t.currentPID /\ pid > 0

countUntrackedDropped(t, entry) ==
    t

countUntrackedNotLogged(t, entry) ==
    IF t.initialized
    THEN updateCounts(t, entry)
    ELSE t

\* The body of the first branch: counts are still incremented while tracking.
countUntracked(t, entry) ==
    IF t.initialized
    THEN updateCounts([t EXCEPT !.logCount = @ + 1], entry)
    ELSE t

\* The branch of CheckEntry taken by the first tracked entry.
firstEntry(t, entry, clock) ==
    LET pid == entry.PID
        t1 == updateCounts(
                [t EXCEPT !.initialized = TRUE, !.currentSession = 1,
                          !.currentPID = pid, !.sessionStart = clock,
                          !.logCount = 1], entry)
    IN  [tracker |-> t1,
         change |-> [EndSession |-> Nil,
                     StartSession |-> NewSessionStart(t1.currentSession, pid, 0)]]

relaunchEndsNewSession(t, entry, clock) ==
    LET pid == entry.PID
        previousPID == t.currentPID
        summary == SessionSummary(t.logCount, t.errorCount, t.faultCount,
                                  clock - t.sessionStart)
        t1 == updateCounts(
                [t EXCEPT !.currentSession = @ + 1, !.currentPID = pid,
                          !.sessionStart = clock, !.logCount = 1,
                          !.errorCount = 0, !.faultCount = 0], entry)
    IN  [tracker |-> t1,
         change |-> [EndSession |-> NewSessionEnd(t1.currentSession, previousPID, summary),
                     StartSession |-> NewSessionStart(t1.currentSession, pid, previousPID)]]

relaunchCountsOpeningEntryTwice(t, entry, clock) ==
    LET pid == entry.PID
        previousPID == t.currentPID
        previousSession == t.currentSession
        summary == SessionSummary(t.logCount + 1, t.errorCount, t.faultCount,
                                  clock - t.sessionStart)
        t1 == updateCounts(
                [t EXCEPT !.currentSession = @ + 1, !.currentPID = pid,
                          !.sessionStart = clock, !.logCount = 1,
                          !.errorCount = 0, !.faultCount = 0], entry)
    IN  [tracker |-> t1,
         change |-> [EndSession |-> NewSessionEnd(previousSession, previousPID, summary),
                     StartSession |-> NewSessionStart(t1.currentSession, pid, previousPID)]]

\* The branch of CheckEntry taken when the PID changed: the app was relaunched.
relaunch(t, entry, clock) ==
    LET pid == entry.PID
        previousPID == t.currentPID
        previousSession == t.currentSession
        summary == SessionSummary(t.logCount, t.errorCount, t.faultCount,
                                  clock - t.sessionStart)
        t1 == updateCounts(
                [t EXCEPT !.currentSession = @ + 1, !.currentPID = pid,
                          !.sessionStart = clock, !.logCount = 1,
                          !.errorCount = 0, !.faultCount = 0], entry)
    IN  [tracker |-> t1,
         change |-> [EndSession |-> NewSessionEnd(previousSession, previousPID, summary),
                     StartSession |-> NewSessionStart(t1.currentSession, pid, previousPID)]]

CheckEntry(t, entry, clock) ==
    IF notTracked(entry) THEN
        [tracker |-> countUntracked(t, entry), change |-> Nil]
    ELSE IF ~t.initialized THEN
        firstEntry(t, entry, clock)
    ELSE IF pidChanged(t, entry.PID) THEN
        relaunch(t, entry, clock)
    ELSE
        [tracker |-> updateCounts([t EXCEPT !.logCount = @ + 1], entry),
         change |-> Nil]

GetFinalSummary(t, clock) ==
    IF ~t.initialized THEN Nil
    ELSE NewSessionEnd(t.currentSession, t.currentPID,
            SessionSummary(t.logCount, t.errorCount, t.faultCount,
                           clock - t.sessionStart))

-----------------------------------------------------------------------------
(* The tail loop around the tracker.  Its source is not part of src/; the  *)
(* order in which it writes the lifecycle lines is taken from the          *)
(* specification (sections 4.7 and 5).                                     *)

Line(type, session) == [type |-> type, session |-> session]

EmitLifecycle(lines, change) ==
    LET afterEnd ==
            IF change # Nil /\ change.EndSession # Nil
            THEN lines \o << Line("session_end", change.EndSession.Session),
                             Line("clear_buffer", change.EndSession.Session) >>
            ELSE lines
    IN  IF change # Nil /\ change.StartSession # Nil
        THEN Append(afterEnd, Line("session_start", change.StartSession.Session))
        ELSE afterEnd

-----------------------------------------------------------------------------
(* History of the calls, kept for the properties only. *)

\* The entry is one of the traced bundle: its subsystem is the bundle
\* identifier, or starts with the bundle identifier followed by a dot.
OfTracedBundle(entry) ==
    \/ entry.Subsystem = App
    \/ /\ Len(entry.Subsystem) > Len(App)
       /\ SubSeq(entry.Subsystem, 1, Len(App) + 1) = App \o <<".">>

\* The session events a returned change carries, in the order of the fields
\* of SessionChange.
ChangeEvents(change) ==
    IF change = Nil THEN << >>
    ELSE (IF change.EndSession # Nil
          THEN << <<"session_end", change.EndSession.Session>> >> ELSE << >>)
         \o
         (IF change.StartSession # Nil
          THEN << <<"session_start", change.StartSession.Session>> >> ELSE << >>)

Counted(h, prefix, entry) ==
    [h EXCEPT ![prefix].total = @ + 1,
              ![prefix].errors = @ + (IF entry.Level = LogLevelError THEN 1 ELSE 0),
              ![prefix].faults = @ + (IF entry.Level = LogLevelFault THEN 1 ELSE 0)]

NoCounts == [total |-> 0, errors |-> 0, faults |-> 0]

InitHistory ==
    [events |-> << >>,          \* the session events returned so far
     increasing |-> TRUE,       \* every entry so far: traced bundle, PID above the last
     lastPID |-> -1,
     lookalike |-> FALSE,       \* some entry so far: bundle prefix without the dot
     uuid |-> Nil,              \* image UUID of the entry that opened the session
     seen |-> NoCounts,         \* entries checked since the session was opened
     bundle |-> NoCounts]       \* those of them that are of the traced bundle

NextHistory(h, entry, res) ==
    LET opened == res.change # Nil /\ res.change.StartSession # Nil
        h1 == [h EXCEPT
                 !.events = @ \o ChangeEvents(res.change),
                 !.increasing = @ /\ OfTracedBundle(entry) /\ entry.PID > h.lastPID,
                 !.lastPID = entry.PID,
                 !.lookalike = @ \/ (matchesApp(entry.Subsystem) /\ ~OfTracedBundle(entry)),
                 !.uuid = IF opened THEN entry.ProcessImageUUID ELSE @,
                 !.seen = IF opened THEN NoCounts ELSE @,
                 !.bundle = IF opened THEN NoCounts ELSE @]
        h2 == IF res.tracker.initialized THEN Counted(h1, "seen", entry) ELSE h1
    IN  IF res.tracker.initialized /\ OfTracedBundle(entry)
        THEN Counted(h2, "bundle", entry) ELSE h2

NoCall == [entry |-> Nil, before |-> NewTracker, historyBefore |-> InitHistory,
           clock |-> 0, change |-> Nil]

-----------------------------------------------------------------------------
(* The tracker driven by the tail loop *)

InitWatchIdle ==
    /\ watch = Nil
    /\ procs = << >>
    /\ stdout = << >>

InitDedupeIdle ==
    /\ dedupe = Nil
    /\ checks = 0
    /\ checked = << >>
    /\ reports = << >>

InitFilterIdle ==
    /\ where = Nil
    /\ pipeline = Nil

InitEmitIdle ==
    /\ emit = Nil
    /\ sink = << >>

InitJsonIdle == jsonLine = Nil

InitRunIdle == run = Nil

InitRotationIdle ==
    /\ rotation = Nil
    /\ files = << >>

InitResumeIdle == resume = Nil

InitStoreIdle ==
    /\ store = Nil
    /\ recorders = << >>

InitWhereIdle == wf = Nil

InitConcIdle ==
    /\ shared = Nil
    /\ callers = << >>

InitRmwIdle == rmw = Nil

\* The components added to the module after the filters are idle.
InitCommandsIdle ==
    /\ InitJsonIdle
    /\ InitRunIdle
    /\ InitRotationIdle
    /\ InitResumeIdle
    /\ InitStoreIdle
    /\ InitWhereIdle
    /\ InitConcIdle
    /\ InitRmwIdle

Init ==
    /\ tracker = NewTracker
    /\ InitEmitIdle
    /\ now = 0
    /\ InitCommandsIdle
    /\ calls = 0
    /\ lastCall = NoCall
    /\ history = InitHistory
    /\ out = << >>
    /\ final = Running
    /\ InitWatchIdle
    /\ InitDedupeIdle
    /\ InitFilterIdle

\* One iteration of the tail loop: CheckEntry, then the lifecycle lines.
\* Every iteration reads the clock one second later than the one before.
HandleEntry ==
    /\ final = Running
    /\ calls < MaxEntries
    /\ \E entry \in LogEntries :
         LET res == CheckEntry(tracker, entry, now) IN
         /\ tracker' = res.tracker
         /\ lastCall' = [entry |-> entry, before |-> tracker,
                         historyBefore |-> history, clock |-> now,
                         change |-> res.change]
         /\ history' = NextHistory(history, entry, res)
         /\ out' = EmitLifecycle(out, res.change)
    /\ calls' = calls + 1
    /\ now' = now + 1
    /\ UNCHANGED final
    /\ UNCHANGED otherThanTracker

\* Shutdown of the tail loop: the session_end of the open session, if any.
Shutdown ==
    /\ final = Running
    /\ final' = GetFinalSummary(tracker, now)
    /\ out' = IF final' = Nil THEN out
              ELSE Append(out, Line("session_end", final'.Session))
    /\ UNCHANGED <<tracker, now, calls, lastCall, history>>
    /\ UNCHANGED otherThanTracker

Next == HandleEntry \/ Shutdown

Spec == Init /\ [][Next]_vars

-----------------------------------------------------------------------------
(* package cli: WatchCmd.Run and runTrigger, with --format ndjson *)

\* time.Time{}, the value of a last-trigger time before the first firing.
ZeroTime == -1

\* --on-pattern pairs; a pattern is a literal, a message a sequence of words.
triggers ==
    << [pattern |-> <<"crash">>, command |-> "notify.sh"],
       [pattern |-> <<"oom">>, command |-> "dump.sh"] >>

Messages == { <<"ok">>, <<"crash">>, <<"crash", "oom">> }

\* The configured commands that do not exit by themselves: cmd.Run() on one
\* of them does not return.
Hanging == {"dump.sh"}

WatchEntries == [Level : Levels, Message : Messages]

\* regexp.MatchString for a literal pattern: the pattern occurs in the message.
MatchString(pattern, message) ==
    \E i \in 1..(Len(message) - Len(pattern) + 1) :
        SubSeq(message, i, i + Len(pattern) - 1) = pattern

cooledDownStrictly(clock, last, cooldown) ==
    last = ZeroTime \/ clock - last > cooldown

\* now.Sub(last) >= cooldown.  now.Sub(time.Time{}) saturates at the largest
\* Duration, which no cooldown exceeds.
cooledDown(clock, last, cooldown) ==
    last = ZeroTime \/ clock - last >= cooldown

LogLine(entry) ==
    [type |-> "log", level |-> entry.Level, message |-> entry.Message]

TriggerLine(triggerType, command, message) ==
    [type |-> "trigger", trigger |-> triggerType, command |-> command,
     message |-> message]

TriggerErrorLine(command) ==
    [type |-> "trigger_error", command |-> command, error |-> "exit status 1"]

WarningLine ==
    [type |-> "warning", message |-> "stream error"]

\* runTrigger: the trigger line, then the command started in a goroutine.
\* st holds the writer's lines, the commands and the locals of Run.
runTrigger(st, triggerType, command, entry, clock) ==
    [st EXCEPT
        !.stdout = Append(@, TriggerLine(triggerType, command, entry.Message)),
        !.procs = Append(@, [triggerType |-> triggerType, command |-> command,
                             state |-> "running", at |-> clock])]

checkErrorTrigger(st, entry, clock) ==
    IF /\ st.w.OnError # ""
       /\ entry.Level = LogLevelError
       /\ cooledDown(clock, st.w.lastErrorTrigger, st.w.cooldown)
    THEN [runTrigger(st, <<"error">>, st.w.OnError, entry, clock)
            EXCEPT !.w.lastErrorTrigger = clock]
    ELSE st

checkFaultTriggerSharesClock(st, entry, clock) ==
    IF /\ st.w.OnFault # ""
       /\ entry.Level = LogLevelFault
       /\ cooledDown(clock, st.w.lastErrorTrigger, st.w.cooldown)
    THEN [runTrigger(st, <<"fault">>, st.w.OnFault, entry, clock)
            EXCEPT !.w.lastErrorTrigger = clock]
    ELSE st

checkFaultTrigger(st, entry, clock) ==
    IF /\ st.w.OnFault # ""
       /\ entry.Level = LogLevelFault
       /\ cooledDown(clock, st.w.lastFaultTrigger, st.w.cooldown)
    THEN [runTrigger(st, <<"fault">>, st.w.OnFault, entry, clock)
            EXCEPT !.w.lastFaultTrigger = clock]
    ELSE st

RECURSIVE checkPatternTriggers(_, _, _, _)
checkPatternTriggers(st, i, entry, clock) ==
    IF i > Len(triggers) THEN st
    ELSE LET t == triggers[i]
             st1 == IF /\ MatchString(t.pattern, entry.Message)
                       /\ cooledDown(clock, st.w.lastPatternTriggers[i], st.w.cooldown)
                    THEN [runTrigger(st, <<"pattern:", t.pattern>>, t.command,
                                     entry, clock)
                            EXCEPT !.w.lastPatternTriggers[i] = clock]
                    ELSE st
         IN  checkPatternTriggers(st1, i + 1, entry, clock)

\* The body of `case entry := <-streamer.Logs()` after a successful Write.
processEntry(st, entry, clock) ==
    LET written == [st EXCEPT !.stdout = Append(@, LogLine(entry))]
    IN  checkPatternTriggers(
            checkFaultTrigger(checkErrorTrigger(written, entry, clock), entry, clock),
            1, entry, clock)

-----------------------------------------------------------------------------
(* The watch loop and the goroutines of its trigger commands *)

InitTrackerIdle ==
    /\ tracker = NewTracker
    /\ calls = 0
    /\ lastCall = NoCall
    /\ history = InitHistory
    /\ out = << >>
    /\ final = Running

\* The state Run enters its loop in: any trigger configuration and cooldown,
\* no trigger fired yet.
WatchInit ==
    /\ InitTrackerIdle
    /\ InitEmitIdle
    /\ now = 0
    /\ InitCommandsIdle
    /\ watch \in
         { [OnError |-> e, OnFault |-> f, cooldown |-> c,
            lastErrorTrigger |-> ZeroTime, lastFaultTrigger |-> ZeroTime,
            lastPatternTriggers |-> [i \in 1..Len(triggers) |-> ZeroTime],
            pc |-> "loop", received |-> 0, sent |-> 0,
            logsClosed |-> FALSE] :
           e \in {"", "on-error.sh"}, f \in {"on-fault.sh"},
           c \in 0..MaxCooldown }
    /\ procs = << >>
    /\ stdout = << >>
    /\ InitDedupeIdle
    /\ InitFilterIdle

\* The zero value of domain.LogEntry, as far as the loop reads it.
ZeroEntry == [Level |-> "", Message |-> << >>]

\* What `entry := <-streamer.Logs()` can receive: an entry the streamer
\* sends or, the channel being closed, the zero value.
Receivable(w) ==
    IF w.logsClosed THEN {ZeroEntry} ELSE WatchEntries

\* The entries the streamer has sent, counted with the receive.
sentAfterReceive(w) ==
    IF w.logsClosed THEN w.sent ELSE w.sent + 1

\* case entry := <-streamer.Logs(), the Write succeeding.  time.Now() reads
\* any time not before the last reading.
ReceiveLog ==
    /\ watch.pc = "loop"
    /\ watch.received < MaxReceives
    /\ \E entry \in Receivable(watch), clock \in now..MaxTime :
         LET st == processEntry([stdout |-> stdout, procs |-> procs, w |-> watch],
                                entry, clock)
         IN  /\ Len(st.procs) <= MaxCommands
             /\ stdout' = st.stdout
             /\ procs' = st.procs
             /\ watch' = [st.w EXCEPT !.received = @ + 1,
                                      !.sent = sentAfterReceive(watch)]
             /\ now' = clock
    /\ UNCHANGED otherThanWatch

\* case entry := <-streamer.Logs(), the Write failing: Run returns the error.
WriteFails ==
    /\ watch.pc = "loop"
    /\ watch.received < MaxReceives
    /\ watch' = [watch EXCEPT !.pc = "returned", !.received = @ + 1,
                              !.sent = sentAfterReceive(watch)]
    /\ UNCHANGED <<now, procs, stdout>>
    /\ UNCHANGED otherThanWatch

\* The streamer closes the channel of Logs().
LogsClosed ==
    /\ watch.pc = "loop"
    /\ ~watch.logsClosed
    /\ watch' = [watch EXCEPT !.logsClosed = TRUE]
    /\ UNCHANGED <<now, procs, stdout>>
    /\ UNCHANGED otherThanWatch

\* case err := <-streamer.Errors()
StreamError ==
    /\ watch.pc = "loop"
    /\ watch.received < MaxReceives
    /\ stdout' = Append(stdout, WarningLine)
    /\ watch' = [watch EXCEPT !.received = @ + 1]
    /\ UNCHANGED <<now, procs>>
    /\ UNCHANGED otherThanWatch

\* case <-ctx.Done(): SIGINT or SIGTERM cancelled the context.
Cancel ==
    /\ watch.pc = "loop"
    /\ watch' = [watch EXCEPT !.pc = "returned"]
    /\ UNCHANGED <<now, procs, stdout>>
    /\ UNCHANGED otherThanWatch

\* The goroutine of command i: cmd.Run() returns nil.
CommandExits(i) ==
    /\ procs[i].state = "running"
    /\ procs[i].command \notin Hanging
    /\ procs' = [procs EXCEPT ![i].state = "done"]
    /\ UNCHANGED <<now, watch, stdout>>
    /\ UNCHANGED otherThanWatch

\* The goroutine of command i: cmd.Run() returns an error.
CommandFails(i) ==
    /\ procs[i].state = "running"
    /\ procs[i].command \notin Hanging
    /\ procs' = [procs EXCEPT ![i].state = "failed"]
    /\ stdout' = Append(stdout, TriggerErrorLine(procs[i].command))
    /\ UNCHANGED <<now, watch>>
    /\ UNCHANGED otherThanWatch

WatchNext ==
    \/ ReceiveLog
    \/ WriteFails
    \/ StreamError
    \/ LogsClosed
    \/ Cancel
    \/ \E i \in 1..Len(procs) : CommandExits(i)
    \/ \E i \in 1..Len(procs) : CommandFails(i)

WatchSpec == WatchInit /\ [][WatchNext]_vars

\* cmd.Run() of command i returns, with or without an error.
CommandReturns(i) ==
    /\ i \in 1..Len(procs)
    /\ (CommandExits(i) \/ CommandFails(i))

\* The watch loop with the scheduling of the goroutines: the goroutine of a
\* command that exits is run, so its cmd.Run() returns.
WatchFairSpec ==
    WatchSpec /\ \A i \in 1..MaxCommands : WF_vars(CommandReturns(i))

-----------------------------------------------------------------------------
(* Properties of the session tracker *)

\* The subsystem has the bundle identifier as a plain string prefix.
StartsWithBundle(subsystem) ==
    /\ Len(subsystem) >= Len(App)
    /\ \A i \in 1..Len(App) : subsystem[i] = App[i]

\* start 1, end 1, start 2, end 2, ..., start n
InterleavedEvents(n) ==
    [i \in 1..(2 * n - 1) |->
        IF i % 2 = 1 THEN <<"session_start", (i + 1) \div 2>>
                     ELSE <<"session_end", i \div 2>>]

C2_UUIDChangeRollsOver ==
    LET e == lastCall.entry
        b == lastCall.before
        c == lastCall.change
    IN  (calls >= 1 /\ OfTracedBundle(e) /\ b.initialized /\ e.PID = b.currentPID) =>
            IF e.ProcessImageUUID # lastCall.historyBefore.uuid
            THEN /\ c # Nil
                 /\ c.EndSession # Nil
                 /\ c.EndSession.Session = b.currentSession
                 /\ c.StartSession # Nil
                 /\ c.StartSession.Session = b.currentSession + 1
            ELSE c = Nil

C4_ParticipatesIffOfBundle ==
    LET e == lastCall.entry
        b == lastCall.before
    IN  (calls >= 1 /\ (~b.initialized \/ (e.PID # b.currentPID /\ e.PID > 0))) =>
            (lastCall.change # Nil <=> OfTracedBundle(e))

SummaryIs(summary, counts) ==
    /\ summary.TotalLogs = counts.total
    /\ summary.Errors = counts.errors
    /\ summary.Faults = counts.faults

\* C5: the summary of every session_end, from a relaunch or from
\* GetFinalSummary, counts the entries of the traced bundle checked during
\* the session, the opening one included, and those of level Error / Fault.
\* Stated for the runs in which every subsystem is either of the bundle or
\* does not begin with the bundle identifier.
C5_SummaryCountsBundleEntries ==
    /\ (/\ calls >= 1
        /\ ~history.lookalike
        /\ lastCall.change # Nil
        /\ lastCall.change.EndSession # Nil) =>
            SummaryIs(lastCall.change.EndSession.Summary, lastCall.historyBefore.bundle)
    /\ (final # Running /\ final # Nil /\ ~history.lookalike) =>
            SummaryIs(final.Summary, history.bundle)

\* C5 as amended: the summary counts every entry checked during the session,
\* of the traced bundle or not, the opening one included.
C5_SummaryCountsCheckedEntries ==
    /\ (calls >= 1 /\ lastCall.change # Nil /\ lastCall.change.EndSession # Nil) =>
            SummaryIs(lastCall.change.EndSession.Summary, lastCall.historyBefore.seen)
    /\ (final # Running /\ final # Nil) =>
            SummaryIs(final.Summary, history.seen)

C5_Witness ==
    /\ calls = 3
    /\ lastCall.change # Nil
    /\ lastCall.change.EndSession # Nil
    /\ lastCall.change.EndSession.Summary.TotalLogs = 2
    /\ lastCall.change.EndSession.Summary.Faults = 1
    /\ lastCall.historyBefore.bundle.total = 1
    /\ final # Running
    /\ final # Nil

\* C6: a session_start of session 2 or higher carries the PID of the session
\* it replaces as previous_pid (a field written only when it is not 0) and
\* the alert APP_RELAUNCHED; the session_start of session 1 carries neither.
C6_RelaunchCarriesPreviousPID ==
    LET c == lastCall.change IN
    (calls >= 1 /\ c # Nil /\ c.StartSession # Nil) =>
        IF c.StartSession.Session >= 2
        THEN /\ c.StartSession.PreviousPID # 0
             /\ c.StartSession.PreviousPID = lastCall.before.currentPID
             /\ c.StartSession.Alert = "APP_RELAUNCHED"
        ELSE /\ c.StartSession.PreviousPID = 0
             /\ c.StartSession.Alert = ""

-----------------------------------------------------------------------------
(* Properties of the watch loop *)

\* --max-parallel-triggers, as the watch test sets it.
MaxParallelTriggers == 1

TriggerTypes ==
    { <<"error">>, <<"fault">> } \cup
    { <<"pattern:", triggers[i].pattern>> : i \in 1..Len(triggers) }

\* The trigger is configured and the entry of the log line matches it.
TriggerMatches(triggerType, line) ==
    CASE triggerType = <<"error">> ->
            watch.OnError # "" /\ line.level = LogLevelError
      [] triggerType = <<"fault">> ->
            watch.OnFault # "" /\ line.level = LogLevelFault
      [] OTHER -> MatchString(triggerType[2], line.message)

\* The time of the last firing of the trigger among the commands cmds.
LastFiring(cmds, triggerType) ==
    LET fired == {i \in 1..Len(cmds) : cmds[i].triggerType = triggerType}
    IN  IF fired = {} THEN ZeroTime
        ELSE cmds[CHOOSE i \in fired : \A j \in fired : j <= i].at

RunningCommands == {i \in 1..Len(procs) : procs[i].state = "running"}

\* This step is an iteration of the loop that received and wrote an entry.
EntryProcessed ==
    /\ watch'.received = watch.received + 1
    /\ Len(stdout') > Len(stdout)
    /\ stdout'[Len(stdout) + 1].type = "log"

\* C8: for each trigger and each matching entry observed at time t, the
\* trigger fires exactly if it never fired or t minus the time of its last
\* firing is at least the cooldown; two firings of one trigger are never
\* less than the cooldown apart.
C8_FiresIffCooledDown ==
    [][EntryProcessed =>
        LET line == stdout'[Len(stdout) + 1]
            started == {procs'[i].triggerType : i \in (Len(procs) + 1)..Len(procs')}
        IN  /\ \A tt \in TriggerTypes :
                 tt \in started <=>
                    /\ TriggerMatches(tt, line)
                    /\ \/ LastFiring(procs, tt) = ZeroTime
                       \/ now' - LastFiring(procs, tt) >= watch.cooldown
            /\ \A i, j \in 1..Len(procs') :
                 (i < j /\ procs'[i].triggerType = procs'[j].triggerType) =>
                    procs'[j].at - procs'[i].at >= watch.cooldown
      ]_vars

\* A matching entry was held back by the cooldown after a firing.
C8_Witness ==
    /\ watch.OnError # ""
    /\ watch.cooldown = 1
    /\ Len(stdout) = 3
    /\ stdout[1].type = "log" /\ stdout[1].level = LogLevelError
    /\ stdout[2].type = "trigger" /\ stdout[2].trigger = <<"error">>
    /\ stdout[3].type = "log" /\ stdout[3].level = LogLevelError
    /\ stdout[3].message = <<"ok">>
    /\ Len(procs) = 1

\* C9: the number of trigger commands started and not yet finished never
\* exceeds max_parallel_triggers.
C9_RunningCommandsBounded ==
    Cardinality(RunningCommands) <= MaxParallelTriggers

IsSkipped(line) ==
    /\ "skipped" \in DOMAIN line
    /\ line.skipped = TRUE
    /\ "reason" \in DOMAIN line
    /\ line.reason = "saturation"

\* C10: the loop never waits for a trigger command: it can take the next
\* entry whatever is running; and a firing that finds max_parallel_triggers
\* commands running starts no command: it is written as a trigger line with
\* skipped=true, reason=saturation.
C10_NeverWaitsSkipsWhenSaturated ==
    [][/\ (watch.pc = "loop" /\ watch.received < MaxReceives) => ENABLED ReceiveLog
       /\ (EntryProcessed /\ Cardinality(RunningCommands) >= MaxParallelTriggers) =>
            /\ Len(procs') = Len(procs)
            /\ \A k \in (Len(stdout) + 2)..Len(stdout') :
                 stdout'[k].type = "trigger" => IsSkipped(stdout'[k])
      ]_vars

\* The line of the trigger event of command i: the i-th trigger line.
TriggerLineOf(i) ==
    CHOOSE k \in 1..Len(stdout) :
        /\ stdout[k].type = "trigger"
        /\ Cardinality({j \in 1..k : stdout[j].type = "trigger"}) = i

\* The lines of the terminal events written for a command.
TerminalLines(command) ==
    {k \in 1..Len(stdout) :
        /\ stdout[k].type \in {"trigger_result", "trigger_error"}
        /\ stdout[k].command = command}

FinishedCommands(command) ==
    {i \in 1..Len(procs) :
        procs[i].command = command /\ procs[i].state # "running"}

\* C11: every trigger invocation gets exactly one terminal event, written
\* after its trigger event: as many terminal lines name a command as
\* invocations of it have finished, and an invocation whose command ran and
\* exited with status 0 has a trigger_result after its trigger line.
C11_OneTerminalEventPerTrigger ==
    /\ \A i \in 1..Len(procs) :
         Cardinality(TerminalLines(procs[i].command)) =
            Cardinality(FinishedCommands(procs[i].command))
    /\ \A i \in 1..Len(procs) :
         procs[i].state = "done" =>
            \E k \in TerminalLines(procs[i].command) :
                /\ k > TriggerLineOf(i)
                /\ stdout[k].type = "trigger_result"

\* C12: every trigger command that is started eventually ends, the trigger
\* timeout killing the one that does not exit by itself.
C12_EveryCommandEnds ==
    \A i \in 1..MaxCommands :
        (i <= Len(procs) /\ procs[i].state = "running")
            ~> (i <= Len(procs) /\ procs[i].state # "running")

\* --max-logs, as the watch test sets it.
MaxLogs == 1

LogLines == {k \in 1..Len(stdout) : stdout[k].type = "log"}

IsCutoff(line) ==
    /\ line.type = "cutoff_reached"
    /\ line.reason = "max_logs"

\* C13: with max_logs = M a run writes at most M log lines, and once it has
\* written M of them it has written cutoff_reached with reason max_logs and
\* Run has returned.
C13_MaxLogsCutsOff ==
    /\ Cardinality(LogLines) <= MaxLogs
    /\ Cardinality(LogLines) = MaxLogs =>
            /\ \E k \in 1..Len(stdout) : IsCutoff(stdout[k])
            /\ watch.pc = "returned"

\* C14: in a run that reached its cutoff, cutoff_reached is the last line
\* of the output and stays the last line: no log, trigger, trigger_result or
\* trigger_error line follows it, whatever the commands started before the
\* cutoff do.
C14_CutoffIsLastLine ==
    Cardinality(LogLines) >= MaxLogs =>
        /\ Len(stdout) > 0
        /\ stdout[Len(stdout)].type = "cutoff_reached"

-----------------------------------------------------------------------------
(* package filter: DedupeFilter *)

DedupeMessages == {"A", "B"}

\* The windows a filter is created with: 0 is consecutive mode.
Windows == {0, 1}

dedupeEntry(count, firstSeen, lastSeen) ==
    [count |-> count, firstSeen |-> firstSeen, lastSeen |-> lastSeen]

DedupeResult(shouldEmit, count, firstSeen, lastSeen) ==
    [ShouldEmit |-> shouldEmit, Count |-> count,
     FirstSeen |-> firstSeen, LastSeen |-> lastSeen]

\* seen is a map: a function whose domain is the set of its keys.
NewDedupeFilter(window) ==
    [window |-> window, seen |-> << >>, lastMessage |-> "",
     lastEmitTime |-> ZeroTime]

agedOutAtWindow(entry, cutoff) ==
    entry.lastSeen <= cutoff

\* entry.lastSeen.Before(cutoff)
agedOut(entry, cutoff) ==
    entry.lastSeen < cutoff

cleanOldEntries(f, clock) ==
    LET cutoff == clock - f.window
        kept == {key \in DOMAIN f.seen : ~agedOut(f.seen[key], cutoff)}
    IN  [f EXCEPT !.seen = [key \in kept |-> f.seen[key]]]

suppressesSeenMessage(f, key) ==
    TRUE

\* A message that is in the map is suppressed: always in window mode, in
\* consecutive mode only if it is the last message.
suppresses(f, key) ==
    f.window > 0 \/ f.lastMessage = key

CheckKeepsLastSeen(f, key, clock) ==
    LET f1 == IF f.window > 0 THEN cleanOldEntries(f, clock) ELSE f
    IN  IF key \in DOMAIN f1.seen /\ suppresses(f1, key)
        THEN LET existing == dedupeEntry(f1.seen[key].count + 1,
                                         f1.seen[key].firstSeen,
                                         f1.seen[key].lastSeen)
             IN  [filter |-> [f1 EXCEPT !.seen[key] = existing],
                  result |-> DedupeResult(FALSE, existing.count,
                                          existing.firstSeen, clock)]
        ELSE [filter |-> [f1 EXCEPT
                           !.seen = [k \in DOMAIN f1.seen \cup {key} |->
                                       IF k = key THEN dedupeEntry(1, clock, clock)
                                       ELSE f1.seen[k]],
                           !.lastMessage = key,
                           !.lastEmitTime = clock],
              result |-> DedupeResult(TRUE, 1, clock, clock)]

Check(f, key, clock) ==
    LET f1 == IF f.window > 0 THEN cleanOldEntries(f, clock) ELSE f
        emitted ==
            [filter |-> [f1 EXCEPT
                           !.seen = [k \in DOMAIN f1.seen \cup {key} |->
                                       IF k = key THEN dedupeEntry(1, clock, clock)
                                       ELSE f1.seen[k]],
                           !.lastMessage = key,
                           !.lastEmitTime = clock],
             result |-> DedupeResult(TRUE, 1, clock, clock)]
    IN  IF key \in DOMAIN f1.seen /\ suppresses(f1, key)
        THEN LET existing == dedupeEntry(f1.seen[key].count + 1,
                                         f1.seen[key].firstSeen, clock)
             IN  [filter |-> [f1 EXCEPT !.seen[key] = existing],
                  result |-> DedupeResult(FALSE, existing.count,
                                          existing.firstSeen, existing.lastSeen)]
        ELSE emitted

GetPendingDuplicates(f) ==
    [key \in {k \in DOMAIN f.seen : f.seen[k].count > 1} |-> f.seen[key]]

Reset(f) ==
    [f EXCEPT !.seen = << >>, !.lastMessage = ""]

-----------------------------------------------------------------------------
(* The filter driven by a caller *)

MaxChecks == 4
MaxGap == 2

DedupeInit ==
    /\ InitTrackerIdle
    /\ InitEmitIdle
    /\ InitWatchIdle
    /\ now = 0
    /\ InitCommandsIdle
    /\ InitFilterIdle
    /\ dedupe \in {NewDedupeFilter(window) : window \in Windows}
    /\ checks = 0
    /\ checked = << >>
    /\ reports = << >>

\* One call of Check; time.Now() reads up to MaxGap after the last reading.
DedupeCheck ==
    /\ checks < MaxChecks
    /\ \E key \in DedupeMessages, gap \in 0..MaxGap :
         LET res == Check(dedupe, key, now + gap) IN
         /\ dedupe' = res.filter
         /\ checked' = Append(checked, [message |-> key, at |-> now + gap,
                                         result |-> res.result])
         /\ now' = now + gap
    /\ checks' = checks + 1
    /\ UNCHANGED reports
    /\ UNCHANGED otherThanDedupe

DedupeReset ==
    /\ checked # << >>
    /\ checks < MaxChecks
    /\ dedupe' = Reset(dedupe)
    /\ checked' = << >>
    /\ UNCHANGED <<now, checks, reports>>
    /\ UNCHANGED otherThanDedupe

\* One call of GetPendingDuplicates by the caller that emits the summaries:
\* the messages of the groups it returned, and how many Check calls were
\* made before it.  Of the calls the last two are kept.
DedupeReport ==
    /\ reports' = Append(IF reports = << >> THEN reports
                         ELSE <<reports[Len(reports)]>>,
                         [at |-> checks,
                          groups |-> DOMAIN GetPendingDuplicates(dedupe)])
    /\ UNCHANGED <<now, dedupe, checks, checked>>
    /\ UNCHANGED otherThanDedupe

DedupeNext == DedupeCheck \/ DedupeReset \/ DedupeReport

DedupeSpec == DedupeInit /\ [][DedupeNext]_vars

-----------------------------------------------------------------------------
(* Properties of the dedupe filter *)

\* The first call of the run of identical messages that call i belongs to.
RunStart(i) ==
    CHOOSE j \in 1..i :
        /\ \A k \in j..i : checked[k].message = checked[i].message
        /\ j = 1 \/ checked[j - 1].message # checked[i].message

\* C15: in consecutive mode, of every run of K identical consecutive
\* messages exactly the first call returns ShouldEmit, with Count 1, and
\* right after the run GetPendingDuplicates reports count K for the message
\* when K > 1.
C15_OneEmitPerRun ==
    dedupe.window = 0 =>
        /\ \A i \in 1..Len(checked) :
             /\ checked[i].result.ShouldEmit <=> RunStart(i) = i
             /\ checked[i].result.ShouldEmit => checked[i].result.Count = 1
        /\ Len(checked) >= 1 =>
             LET n == Len(checked)
                 K == n - RunStart(n) + 1
                 pending == GetPendingDuplicates(dedupe)
             IN  IF K > 1
                 THEN /\ checked[n].message \in DOMAIN pending
                      /\ pending[checked[n].message].count = K
                 ELSE checked[n].message \notin DOMAIN pending

C15_Witness ==
    /\ dedupe.window = 0
    /\ Len(checked) = 4
    /\ checked[1].message = "B"
    /\ \A i \in 2..4 : checked[i].message = "A"
    /\ GetPendingDuplicates(dedupe)["A"].count = 3

RECURSIVE SumOver(_, _)
SumOver(f, keys) ==
    IF keys = {} THEN 0
    ELSE LET k == CHOOSE x \in keys : TRUE
         IN  f[k] + SumOver(f, keys \ {k})

\* What the next summary reports as suppressed: count - 1 over the groups
\* of GetPendingDuplicates.
SuppressedPending ==
    LET pending == GetPendingDuplicates(dedupe)
    IN  SumOver([k \in DOMAIN pending |-> pending[k].count - 1], DOMAIN pending)

SuppressedCalls ==
    Cardinality({i \in 1..Len(checked) : ~checked[i].result.ShouldEmit})

\* C16: in consecutive mode the suppressed count the next summary can
\* report equals the number of Check calls that returned ShouldEmit = false
\* since the filter was created or last Reset.
C16_SuppressedCountIsExact ==
    dedupe.window = 0 => SuppressedPending = SuppressedCalls

\* The last call before call i that checked the same message, 0 if none.
LastOccurrence(i) ==
    LET same == {j \in 1..(i - 1) : checked[j].message = checked[i].message}
    IN  IF same = {} THEN 0 ELSE CHOOSE j \in same : \A k \in same : k <= j

\* C17: in windowed mode a message whose last occurrence is at most the
\* window old is suppressed and its Count is one more than that of the last
\* occurrence; a message never checked, or last checked more than the
\* window ago, is emitted with Count 1.
C17_WindowSuppressesAndAgesOut ==
    dedupe.window > 0 =>
        \A i \in 1..Len(checked) :
            LET j == LastOccurrence(i)
                r == checked[i].result
            IN  IF j # 0 /\ checked[i].at - checked[j].at <= dedupe.window
                THEN /\ ~r.ShouldEmit
                     /\ r.Count = checked[j].result.Count + 1
                ELSE /\ r.ShouldEmit
                     /\ r.Count = 1

\* A repeat exactly the window later is suppressed, a later one has aged out.
C17_Witness ==
    /\ dedupe.window = 1
    /\ Len(checked) = 3
    /\ \A i \in 1..3 : checked[i].message = "A"
    /\ checked[2].at - checked[1].at = 1
    /\ checked[2].result.Count = 2
    /\ checked[3].at - checked[2].at = 2
    /\ checked[3].result.ShouldEmit

-----------------------------------------------------------------------------
(* package filter: WhereClause.  Strings are sequences of characters. *)

\* strings.Index: the offset of the first occurrence of sub in str, or -1.
Index(str, sub) ==
    LET hits == {i \in 1..(Len(str) - Len(sub) + 1) :
                    SubSeq(str, i, i + Len(sub) - 1) = sub}
    IN  IF hits = {} THEN -1
        ELSE (CHOOSE i \in hits : \A j \in hits : i <= j) - 1

RECURSIVE TrimSpace(_)
TrimSpace(str) ==
    IF str = << >> THEN str
    ELSE IF Head(str) = " " THEN TrimSpace(Tail(str))
    ELSE IF str[Len(str)] = " " THEN TrimSpace(SubSeq(str, 1, Len(str) - 1))
    ELSE str

\* The operators in the order ParseWhereClause tries them.
operators ==
    << <<"!", "~">>, <<">", "=">>, <<"<", "=">>, <<"!", "=">>,
       <<"~">>, <<"=">>, <<"^">>, <<"$">> >>

WhereError == [err |-> TRUE]

WhereClause(field, op, value) ==
    [err |-> FALSE, Field |-> field, Operator |-> op, Value |-> value]

\* The loop of ParseWhereClause from operator k on: the first operator of
\* the list that occurs in the clause after its first character splits it.
RECURSIVE parseFrom(_, _)
parseFrom(clause, k) ==
    IF k > Len(operators) THEN WhereError
    ELSE LET op == operators[k]
             idx == Index(clause, op)
         IN  IF idx > 0
             THEN LET field == TrimSpace(SubSeq(clause, 1, idx))
                      value == TrimSpace(SubSeq(clause, idx + Len(op) + 1, Len(clause)))
                  IN  IF field = << >> \/ value = << >> THEN WhereError
                      ELSE WhereClause(field, op, value)
             ELSE parseFrom(clause, k + 1)

ParseWhereClause(clause) == parseFrom(clause, 1)

-----------------------------------------------------------------------------
(* ParseWhereClause applied to field + operator + value *)

MaxValueLen == 3

OperatorChars == {"=", "~", "!", ">", "<", "^", "$"}

WhereFields == { <<"p", "i", "d">>, <<"m">> }

\* Non-empty values that do not begin with an operator character.
WhereValues ==
    {v \in UNION {[1..n -> OperatorChars \cup {"a"}] : n \in 1..MaxValueLen} :
        v[1] \notin OperatorChars}

ParseInit ==
    /\ InitTrackerIdle
    /\ InitEmitIdle
    /\ InitWatchIdle
    /\ InitDedupeIdle
    /\ now = 0
    /\ InitCommandsIdle
    /\ pipeline = Nil
    /\ where \in [pc : {"call"}, field : WhereFields,
                   op : {operators[k] : k \in 1..Len(operators)},
                   value : WhereValues, result : {Nil}]

ParseClause ==
    /\ where.pc = "call"
    /\ where' = [where EXCEPT
                    !.pc = "returned",
                    !.result = ParseWhereClause(where.field \o where.op \o where.value)]
    /\ UNCHANGED <<now, pipeline>>
    /\ UNCHANGED otherThanFilter

ParseNext == ParseClause

ParseSpec == ParseInit /\ [][ParseNext]_vars

\* C19: ParseWhereClause(f + op + v), for a field f without operator
\* characters, an operator op and a value v that does not begin with an
\* operator character, returns Field = f, Operator = op, Value = v.
C19_SplitsAtFirstOperator ==
    where.pc = "returned" =>
        where.result = WhereClause(where.field, where.op, where.value)

-----------------------------------------------------------------------------
(* package filter: WhereClause.Match and WhereFilter *)

\* strings.ToLower on the upper-case letters the names below use.
LowerChar(c) ==
    CASE c = "D" -> "d" [] c = "E" -> "e" [] c = "F" -> "f"
      [] c = "I" -> "i" [] c = "L" -> "l" [] c = "A" -> "a"
      [] c = "N" -> "n" [] c = "O" -> "o" [] c = "R" -> "r"
      [] c = "T" -> "t" [] c = "U" -> "u" [] OTHER -> c

ToLower(str) == [i \in 1..Len(str) |-> LowerChar(str[i])]

\* string(entry.Level)
LevelString(level) ==
    CASE level = "Debug" -> <<"D", "e", "b", "u", "g">>
      [] level = "Info" -> <<"I", "n", "f", "o">>
      [] level = "Default" -> <<"D", "e", "f", "a", "u", "l", "t">>
      [] level = "Error" -> <<"E", "r", "r", "o", "r">>
      [] level = "Fault" -> <<"F", "a", "u", "l", "t">>
      [] level = "unknown" -> <<"u", "n", "k", "n", "o", "w", "n">>

\* domain.ParseLogLevel: case-insensitive, an unknown name is Default.
ParseLogLevel(str) ==
    LET l == ToLower(str)
    IN  CASE l = ToLower(<<"D", "e", "b", "u", "g">>) -> "Debug"
          [] l = ToLower(<<"I", "n", "f", "o">>) -> "Info"
          [] l = ToLower(<<"E", "r", "r", "o", "r">>) -> "Error"
          [] l = ToLower(<<"F", "a", "u", "l", "t">>) -> "Fault"
          [] OTHER -> "Default"

\* LogLevel.Priority
Priority(level) ==
    CASE level = "Debug" -> 0
      [] level = "Info" -> 1
      [] level = "Error" -> 3
      [] level = "Fault" -> 4
      [] OTHER -> 2

Digits == <<"0", "1", "2", "3", "4", "5", "6", "7", "8", "9">>

\* strconv.Itoa for a PID that is not negative
RECURSIVE Itoa(_)
Itoa(n) ==
    IF n < 10 THEN <<Digits[n + 1]>>
    ELSE Itoa(n \div 10) \o <<Digits[(n % 10) + 1]>>

HasPrefix(str, prefix) ==
    Len(str) >= Len(prefix) /\ SubSeq(str, 1, Len(prefix)) = prefix

HasSuffix(str, suffix) ==
    /\ Len(str) >= Len(suffix)
    /\ SubSeq(str, Len(str) - Len(suffix) + 1, Len(str)) = suffix

getFieldValue(wc, entry) ==
    LET field == ToLower(wc.Field)
    IN  CASE field = <<"l", "e", "v", "e", "l">> -> LevelString(entry.Level)
          [] field = <<"s", "u", "b", "s", "y", "s", "t", "e", "m">> -> entry.Subsystem
          [] field = <<"c", "a", "t", "e", "g", "o", "r", "y">> -> entry.Category
          [] field = <<"p", "r", "o", "c", "e", "s", "s">> -> entry.Process
          [] field = <<"m", "e", "s", "s", "a", "g", "e">> -> entry.Message
          [] field = <<"p", "i", "d">> -> Itoa(entry.PID)
          [] OTHER -> << >>

compareLevelStrictly(wc, entry, greaterOrEqual) ==
    IF ToLower(wc.Field) # <<"l", "e", "v", "e", "l">> THEN FALSE
    ELSE LET entryPriority == Priority(entry.Level)
             targetPriority == Priority(ParseLogLevel(wc.Value))
         IN  IF greaterOrEqual THEN entryPriority > targetPriority
             ELSE entryPriority < targetPriority

compareLevel(wc, entry, greaterOrEqual) ==
    IF ToLower(wc.Field) # <<"l", "e", "v", "e", "l">> THEN FALSE
    ELSE LET entryPriority == Priority(entry.Level)
             targetPriority == Priority(ParseLogLevel(wc.Value))
         IN  IF greaterOrEqual THEN entryPriority >= targetPriority
             ELSE entryPriority <= targetPriority

\* WhereClause.Match; the regex of ~ and !~ is a literal: it matches where
\* the value occurs.
WhereClauseMatch(wc, entry) ==
    LET fieldValue == getFieldValue(wc, entry)
    IN  CASE wc.Operator = <<"=">> -> fieldValue = wc.Value
          [] wc.Operator = <<"!", "=">> -> fieldValue # wc.Value
          [] wc.Operator = <<"~">> -> MatchString(wc.Value, fieldValue)
          [] wc.Operator = <<"!", "~">> -> ~MatchString(wc.Value, fieldValue)
          [] wc.Operator = <<"^">> -> HasPrefix(fieldValue, wc.Value)
          [] wc.Operator = <<"$">> -> HasSuffix(fieldValue, wc.Value)
          [] wc.Operator = <<">", "=">> -> compareLevel(wc, entry, TRUE)
          [] wc.Operator = <<"<", "=">> -> compareLevel(wc, entry, FALSE)
          [] OTHER -> FALSE

\* NewWhereFilter: nil without clauses, an error if a clause does not parse.
RECURSIVE parseClauses(_, _)
parseClauses(whereClauses, parsed) ==
    IF whereClauses = << >> THEN [err |-> FALSE, clauses |-> parsed]
    ELSE LET wc == ParseWhereClause(Head(whereClauses))
         IN  IF wc.err THEN WhereError
             ELSE parseClauses(Tail(whereClauses), Append(parsed, wc))

NewWhereFilter(whereClauses) ==
    IF Len(whereClauses) = 0 THEN Nil
    ELSE parseClauses(whereClauses, << >>)

matchFirstClauseOnly(clauses, entry) ==
    IF clauses = << >> THEN TRUE
    ELSE WhereClauseMatch(Head(clauses), entry)

\* The loop of WhereFilter.Match over the clauses.
RECURSIVE matchClauses(_, _)
matchClauses(clauses, entry) ==
    IF clauses = << >> THEN TRUE
    ELSE IF ~WhereClauseMatch(Head(clauses), entry) THEN FALSE
    ELSE matchClauses(Tail(clauses), entry)

WhereFilterMatch(f, entry) == matchClauses(f.clauses, entry)

-----------------------------------------------------------------------------
(* package filter: Pipeline.  NewPipeline and Pipeline.Match are not part  *)
(* of src/; they are taken from the specification (section 4.3) and from   *)
(* what pipeline_test.go requires of them.                                 *)

\* A compiled regular expression of a literal.
MustCompile(str) == [re |-> str]

NewPipeline(pattern, excludes, whereFilter) ==
    IF pattern = Nil /\ Len(excludes) = 0 /\ whereFilter = Nil THEN Nil
    ELSE [pattern |-> pattern, excludes |-> excludes, where |-> whereFilter]

RECURSIVE anyExcludeMatches(_, _)
anyExcludeMatches(excludes, message) ==
    IF excludes = << >> THEN FALSE
    ELSE IF MatchString(Head(excludes).re, message) THEN TRUE
    ELSE anyExcludeMatches(Tail(excludes), message)

\* The three stages in their order; the nil pipeline admits everything.
PipelineMatch(p, entry) ==
    IF p = Nil THEN TRUE
    ELSE IF p.pattern # Nil /\ ~MatchString(p.pattern.re, entry.Message) THEN FALSE
    ELSE IF anyExcludeMatches(p.excludes, entry.Message) THEN FALSE
    ELSE IF p.where # Nil /\ ~WhereFilterMatch(p.where, entry) THEN FALSE
    ELSE TRUE

-----------------------------------------------------------------------------
(* A pipeline built from its configuration and asked about entries *)

MaxExcludes == 2
MaxClauses == 2

IncludePatterns == {Nil, MustCompile(<<"o", "k">>)}

ExcludePatterns == {MustCompile(<<"x">>), MustCompile(<<"n">>)}

\* level=Error, message^o, level>=Error, and a clause without operator
ClauseStrings == {<<"l", "e", "v", "e", "l", "=", "E", "r", "r", "o", "r">>, <<"m", "e", "s", "s", "a", "g", "e", "^", "o">>, <<"l", "e", "v", "e", "l", ">", "=", "E", "r", "r", "o", "r">>, <<"p", "i", "d">>}

SeqsUpTo(S, n) == UNION {[1..k -> S] : k \in 0..n}

PipelineEntries ==
    [Level : {LogLevelError, LogLevelInfo},
     Subsystem : {App}, Category : {<<"n", "e", "t">>}, Process : {<<"a", "p", "p">>},
     Message : {<<"o", "k">>, <<"x", "o", "k">>, <<"n", "o">>, <<"o">>},
     PID : {12}]

PipelineInit ==
    /\ InitTrackerIdle
    /\ InitEmitIdle
    /\ InitWatchIdle
    /\ InitDedupeIdle
    /\ now = 0
    /\ InitCommandsIdle
    /\ where = Nil
    /\ pipeline \in [pc : {"new"}, pattern : IncludePatterns,
                      excludes : SeqsUpTo(ExcludePatterns, MaxExcludes),
                      whereClauses : SeqsUpTo(ClauseStrings, MaxClauses),
                      p : {Nil}, entry : {Nil}, matched : {FALSE}]

\* NewWhereFilter, then NewPipeline unless a clause did not parse.
BuildPipeline ==
    /\ pipeline.pc = "new"
    /\ LET whereFilter == NewWhereFilter(pipeline.whereClauses)
       IN  IF whereFilter # Nil /\ whereFilter.err
           THEN pipeline' = [pipeline EXCEPT !.pc = "error"]
           ELSE pipeline' = [pipeline EXCEPT
                               !.pc = "built",
                               !.p = NewPipeline(pipeline.pattern, pipeline.excludes,
                                                 whereFilter)]
    /\ UNCHANGED <<now, where>>
    /\ UNCHANGED otherThanFilter

MatchEntry ==
    /\ pipeline.pc = "built"
    /\ \E entry \in PipelineEntries :
         pipeline' = [pipeline EXCEPT !.entry = entry,
                                      !.matched = PipelineMatch(pipeline.p, entry)]
    /\ UNCHANGED <<now, where>>
    /\ UNCHANGED otherThanFilter

PipelineNext == BuildPipeline \/ MatchEntry

PipelineSpec == PipelineInit /\ [][PipelineNext]_vars

\* C18: Match(L) is true exactly if the include regex is absent or matches
\* the message, no exclude regex matches the message and every WHERE clause
\* matches L; built without any filter the pipeline is nil and matches
\* every entry.
C18_MatchIsConjunctionOfStages ==
    pipeline.pc = "built" =>
        /\ pipeline.entry # Nil =>
             (pipeline.matched <=>
                /\ \/ pipeline.pattern = Nil
                   \/ MatchString(pipeline.pattern.re, pipeline.entry.Message)
                /\ \A i \in 1..Len(pipeline.excludes) :
                     ~MatchString(pipeline.excludes[i].re, pipeline.entry.Message)
                /\ \A j \in 1..Len(pipeline.whereClauses) :
                     WhereClauseMatch(ParseWhereClause(pipeline.whereClauses[j]),
                                      pipeline.entry))
        /\ (/\ pipeline.pattern = Nil
            /\ pipeline.excludes = << >>
            /\ pipeline.whereClauses = << >>) =>
                /\ pipeline.p = Nil
                /\ pipeline.entry # Nil => pipeline.matched

\* Two clauses of which only the second rejects the entry.
C18_Witness ==
    /\ pipeline.pc = "built"
    /\ pipeline.pattern = MustCompile(<<"o", "k">>)
    /\ pipeline.excludes = <<MustCompile(<<"x">>)>>
    /\ pipeline.whereClauses = <<<<"m", "e", "s", "s", "a", "g", "e", "^", "o">>, <<"l", "e", "v", "e", "l", "=", "E", "r", "r", "o", "r">>>>
    /\ pipeline.entry # Nil
    /\ pipeline.entry.Message = <<"o", "k">>
    /\ pipeline.entry.Level = LogLevelInfo
    /\ ~pipeline.matched

-----------------------------------------------------------------------------
(* package cli: the writes of the watch loop and of the trigger goroutines *)
(* to globals.Stdout.  Every event is one Write of a whole line on the     *)
(* io.Writer; nothing in watch.go locks around it.  An *os.File serialises *)
(* its Writes; on a writer that does not (the bytes.Buffer the tests pass) *)
(* concurrent Writes race, and the bytes of one can land inside another:   *)
(* such a Write is modelled as copying the line in two pieces.             *)

MaxEmits == 2

\* The watch loop (writer.Write, line 202) and the goroutines of two
\* trigger commands (fmt.Fprintf, line 271).
Contexts == {"loop", "trigger-1", "trigger-2"}

\* The lines a context writes: the loop one per entry, a goroutine at most
\* its trigger_error.
EmitLimit(c) == IF c = "loop" THEN MaxEmits ELSE 1

WriterKinds == {"file", "buffer"}

Piece(c, n, k) == [by |-> c, event |-> n, piece |-> k]

EmitInit ==
    /\ InitTrackerIdle
    /\ InitWatchIdle
    /\ InitDedupeIdle
    /\ InitFilterIdle
    /\ now = 0
    /\ InitCommandsIdle
    /\ emit \in [kind : WriterKinds,
                  ctx : {[c \in Contexts |-> [pc |-> "idle", sent |-> 0]]}]
    /\ sink = << >>

\* A Write on a writer that serialises its Writes.
WriteWhole(c) ==
    /\ emit.kind = "file"
    /\ emit.ctx[c].pc = "idle"
    /\ emit.ctx[c].sent < EmitLimit(c)
    /\ sink' = sink \o << Piece(c, emit.ctx[c].sent + 1, 1),
                          Piece(c, emit.ctx[c].sent + 1, 2) >>
    /\ emit' = [emit EXCEPT !.ctx[c].sent = @ + 1]
    /\ UNCHANGED now
    /\ UNCHANGED otherThanEmit

\* A Write on a writer that does not: the copy starts ...
WriteBegins(c) ==
    /\ emit.kind = "buffer"
    /\ emit.ctx[c].pc = "idle"
    /\ emit.ctx[c].sent < EmitLimit(c)
    /\ sink' = Append(sink, Piece(c, emit.ctx[c].sent + 1, 1))
    /\ emit' = [emit EXCEPT !.ctx[c].pc = "writing"]
    /\ UNCHANGED now
    /\ UNCHANGED otherThanEmit

\* ... and ends.
WriteEnds(c) ==
    /\ emit.ctx[c].pc = "writing"
    /\ sink' = Append(sink, Piece(c, emit.ctx[c].sent + 1, 2))
    /\ emit' = [emit EXCEPT !.ctx[c].pc = "idle", !.ctx[c].sent = @ + 1]
    /\ UNCHANGED now
    /\ UNCHANGED otherThanEmit

EmitNext ==
    \/ \E c \in Contexts : WriteWhole(c)
    \/ \E c \in Contexts : WriteBegins(c)
    \/ \E c \in Contexts : WriteEnds(c)

EmitSpec == EmitInit /\ [][EmitNext]_vars

RECURSIVE SumSent(_)
SumSent(cs) ==
    IF cs = {} THEN 0
    ELSE LET c == CHOOSE x \in cs : TRUE
         IN  emit.ctx[c].sent + SumSent(cs \ {c})

\* C20: K emissions from several contexts leave exactly K complete lines in
\* the output: whenever no Write is under way, the output is a sequence of
\* whole events, no piece of one event inside another.
C20_LinesAreWhole ==
    (\A c \in Contexts : emit.ctx[c].pc = "idle") =>
        /\ Len(sink) = 2 * SumSent(Contexts)
        /\ \A i \in 1..SumSent(Contexts) :
             /\ sink[2 * i - 1].piece = 1
             /\ sink[2 * i] = [sink[2 * i - 1] EXCEPT !.piece = 2]

-----------------------------------------------------------------------------
(* package cli: the ndjson lines watch.go formats itself with fmt.Fprintf: *)
(* trigger, trigger_error and warning.  A line is the sequence of its      *)
(* characters, so that what escapeJSON leaves in it can be read back.      *)

MaxTextLen == 2

Quote == "\""
Backslash == "\\"

\* The characters of the texts: a plain one, the two escapeJSON is mostly
\* about, a control character it replaces and one it does not.
TextChars == {"a", Quote, Backslash, "\n", "\f"}

Texts == UNION {[1..n -> TextChars] : n \in 0..MaxTextLen}

RECURSIVE ReplaceAll(_, _, _)
\* strings.ReplaceAll for a one-character old.
ReplaceAll(s, old, new) ==
    IF s = << >> THEN << >>
    ELSE (IF Head(s) = old THEN new ELSE <<Head(s)>>)
             \o ReplaceAll(Tail(s), old, new)

escapeJSON(s) ==
    LET s1 == ReplaceAll(s, Backslash, <<Backslash, Backslash>>)
        s2 == ReplaceAll(s1, Quote, <<Backslash, Quote>>)
        s3 == ReplaceAll(s2, "\n", <<Backslash, "n">>)
        s4 == ReplaceAll(s3, "\r", <<Backslash, "r">>)
    IN  ReplaceAll(s4, "\t", <<Backslash, "t">>)

\* The pieces of the three format strings around their %s verbs.
TriggerHead ==
    <<"{", "\"", "t", "y", "p", "e", "\"", ":", "\"", "t", "r", "i",
      "g", "g", "e", "r", "\"", ",", "\"", "t", "r", "i", "g", "g",
      "e", "r", "\"", ":", "\"">>

CommandKey ==
    <<"\"", ",", "\"", "c", "o", "m", "m", "a", "n", "d", "\"", ":",
      "\"">>

MessageKey ==
    <<"\"", ",", "\"", "m", "e", "s", "s", "a", "g", "e", "\"", ":",
      "\"">>

TriggerErrorHead ==
    <<"{", "\"", "t", "y", "p", "e", "\"", ":", "\"", "t", "r", "i",
      "g", "g", "e", "r", "_", "e", "r", "r", "o", "r", "\"", ",",
      "\"", "c", "o", "m", "m", "a", "n", "d", "\"", ":", "\"">>

ErrorKey ==
    <<"\"", ",", "\"", "e", "r", "r", "o", "r", "\"", ":", "\"">>

WarningHead ==
    <<"{", "\"", "t", "y", "p", "e", "\"", ":", "\"", "w", "a", "r",
      "n", "i", "n", "g", "\"", ",", "\"", "m", "e", "s", "s", "a",
      "g", "e", "\"", ":", "\"">>

LineTail == <<"\"", "}", "\n">>

\* fmt.Fprintf of line 250: only the message goes through escapeJSON.
TriggerFormat(triggerType, command, message) ==
    TriggerHead \o triggerType \o CommandKey \o command \o MessageKey
        \o escapeJSON(message) \o LineTail

\* fmt.Fprintf of line 271: only the error text goes through escapeJSON.
TriggerErrorFormat(command, errText) ==
    TriggerErrorHead \o command \o ErrorKey \o escapeJSON(errText) \o LineTail

\* fmt.Fprintf of line 237: the error text is written as it is.
WarningFormat(errText) == WarningHead \o errText \o LineTail

PatternPrefix == <<"p", "a", "t", "t", "e", "r", "n", ":">>
ErrorType == <<"e", "r", "r", "o", "r">>
PlainCommand == <<".", "/", "a", ".", "s", "h">>
PlainText == <<"a", " ", "b">>

\* The texts a line is made of: one of them (the slot) is any text, the
\* others are plain.  A pattern trigger exists only if its pattern compiled.
Slots ==
    {<<"trigger", "pattern">>, <<"trigger", "command">>,
     <<"trigger", "message">>, <<"trigger_error", "command">>,
     <<"trigger_error", "error">>, <<"warning", "message">>}

textOf(slot, plain) == IF jsonLine.slot = slot THEN jsonLine.text ELSE plain

RECURSIVE Compiles(_)
\* regexp.Compile accepts the text: over these characters it fails only on
\* a backslash that escapes nothing (a trailing one).
Compiles(t) ==
    IF t = << >> THEN TRUE
    ELSE IF Head(t) = Backslash
        THEN Len(t) >= 2 /\ Compiles(Tail(Tail(t)))
    ELSE Compiles(Tail(t))

JsonInit ==
    /\ InitTrackerIdle
    /\ InitWatchIdle
    /\ InitDedupeIdle
    /\ InitFilterIdle
    /\ InitEmitIdle
    /\ InitRunIdle
    /\ InitRotationIdle
    /\ InitResumeIdle
    /\ InitStoreIdle
    /\ InitWhereIdle
    /\ InitConcIdle
    /\ InitRmwIdle
    /\ now = 0
    /\ jsonLine \in
         {[kind |-> st[1][1], slot |-> st[1][2], text |-> st[2],
           pc |-> "format", bytes |-> << >>] :
          st \in {x \in Slots \X Texts :
                     x[1][2] = "pattern" => Compiles(x[2])}}

\* runTrigger writes the trigger line; a pattern trigger's type is
\* "pattern:" followed by the source of its regular expression.
WriteTrigger ==
    /\ jsonLine.pc = "format"
    /\ jsonLine.kind = "trigger"
    /\ jsonLine' =
         [jsonLine EXCEPT
            !.pc = "written",
            !.bytes =
                TriggerFormat(
                    IF jsonLine.slot = "pattern"
                        THEN PatternPrefix \o jsonLine.text ELSE ErrorType,
                    textOf("command", PlainCommand),
                    textOf("message", PlainText))]
    /\ UNCHANGED now
    /\ UNCHANGED otherThanJson

\* The goroutine of a command that failed writes the trigger_error line.
WriteTriggerError ==
    /\ jsonLine.pc = "format"
    /\ jsonLine.kind = "trigger_error"
    /\ jsonLine' =
         [jsonLine EXCEPT
            !.pc = "written",
            !.bytes = TriggerErrorFormat(textOf("command", PlainCommand),
                                         textOf("error", PlainText))]
    /\ UNCHANGED now
    /\ UNCHANGED otherThanJson

\* case err := <-streamer.Errors() writes the warning line.
WriteWarning ==
    /\ jsonLine.pc = "format"
    /\ jsonLine.kind = "warning"
    /\ jsonLine' = [jsonLine EXCEPT !.pc = "written",
                                    !.bytes = WarningFormat(jsonLine.text)]
    /\ UNCHANGED now
    /\ UNCHANGED otherThanJson

JsonNext ==
    \/ WriteTrigger
    \/ WriteTriggerError
    \/ WriteWarning

JsonSpec == JsonInit /\ [][JsonNext]_vars

\* What RFC 8259 allows in a string: no unescaped control character, and a
\* backslash only before one of these or before u and four hex digits.
ControlChars == {"\n", "\r", "\t", "\f"}
SimpleEscapes == {Quote, Backslash, "/", "b", "f", "n", "r", "t"}
HexDigits == {"0", "1", "2", "3", "4", "5", "6", "7", "8", "9",
              "a", "b", "c", "d", "e", "f", "A", "B", "C", "D", "E", "F"}

RECURSIVE stringEnd(_, _)
\* The position after the closing quote of the string whose content starts
\* at i, 0 if the string is not well formed.
stringEnd(bytes, i) ==
    IF i > Len(bytes) THEN 0
    ELSE IF bytes[i] = Quote THEN i + 1
    ELSE IF bytes[i] \in ControlChars THEN 0
    ELSE IF bytes[i] = Backslash
        THEN IF i + 1 > Len(bytes) THEN 0
             ELSE IF bytes[i + 1] \in SimpleEscapes
                 THEN stringEnd(bytes, i + 2)
             ELSE IF /\ bytes[i + 1] = "u"
                     /\ i + 5 <= Len(bytes)
                     /\ \A k \in 2..5 : bytes[i + k] \in HexDigits
                 THEN stringEnd(bytes, i + 6)
             ELSE 0
    ELSE stringEnd(bytes, i + 1)

RECURSIVE membersEnd(_, _)
\* The position after the closing brace of the object whose next member
\* starts at i, 0 if what follows is not "key":"value" members.  The lines
\* of watch.go have string values only, and a text of the lengths drawn
\* here cannot close its string and open a value of another kind.
membersEnd(bytes, i) ==
    LET k == IF i <= Len(bytes) /\ bytes[i] = Quote
                 THEN stringEnd(bytes, i + 1) ELSE 0
        v == IF /\ k # 0
                /\ k + 1 <= Len(bytes)
                /\ bytes[k] = ":"
                /\ bytes[k + 1] = Quote
                 THEN stringEnd(bytes, k + 2) ELSE 0
    IN  IF v = 0 \/ v > Len(bytes) THEN 0
        ELSE IF bytes[v] = "}" THEN v + 1
        ELSE IF bytes[v] = "," THEN membersEnd(bytes, v + 1)
        ELSE 0

\* The bytes of one Write are one JSON object and the newline that ends
\* the line.
IsJSONObjectLine(bytes) ==
    /\ Len(bytes) >= 3
    /\ bytes[1] = "{"
    /\ LET e == membersEnd(bytes, 2)
       IN  /\ e # 0
           /\ e = Len(bytes)
           /\ bytes[e] = "\n"

\* C21: in ndjson format every line the watch command writes is one
\* well-formed JSON object, whatever the log message, the trigger command,
\* the trigger type (the pattern text included) and the streamer's error
\* text contain: double quotes, backslashes, control characters.
C21_EveryLineIsOneJSONObject ==
    jsonLine.pc = "written" => IsJSONObjectLine(jsonLine.bytes)

\* A line whose texts are plain is accepted, so is an escaped message.
PlainLinesAreJSONObjects ==
    (jsonLine.pc = "written" /\ \A i \in 1..Len(jsonLine.text) :
                                    jsonLine.text[i] = "a")
        => IsJSONObjectLine(jsonLine.bytes)

-----------------------------------------------------------------------------
(* Properties of the events of the watch command *)

\* The events watch.go formats itself; the log lines are the writer's.
WatchFormatted == {"trigger", "trigger_error", "warning"}

\* C22: every event written to the ndjson stream carries a type and an
\* integer schemaVersion, and every event that pertains to a tail, the
\* trigger events among them, also carries tail_id.  Stated for the events
\* the watch command formats itself.
C22_EventsCarrySchemaVersionAndTailID ==
    \A k \in 1..Len(stdout) :
        stdout[k].type \in WatchFormatted =>
            /\ "schemaVersion" \in DOMAIN stdout[k]
            /\ stdout[k].schemaVersion \in Int
            /\ stdout[k].type \in {"trigger", "trigger_error"} =>
                   "tail_id" \in DOMAIN stdout[k]

-----------------------------------------------------------------------------
(* One run of the process: main hands the parsed command line to the       *)
(* command's Run and turns the error Run returns into the exit code.  Two  *)
(* commands: watch (its start-up and its loop, without the triggers and    *)
(* without tmux, which the watch model above and the code's tmux branch    *)
(* cover), and a command that starts by calling validateFlags and returns  *)
(* its error to main as it is.                                             *)

MaxWrites == 2

Formats == {"ndjson", "text"}

ErrorEvent(code) == [type |-> "error", code |-> code]

\* WatchCmd.outputError and outputErrorCommon: the error event on stdout in
\* ndjson, the text on stderr otherwise; the caller returns the error.
outputError(r, code) ==
    IF r.Format = "ndjson"
        THEN [r EXCEPT !.stdout = Append(@, ErrorEvent(code)),
                       !.err = TRUE, !.pc = "returned"]
        ELSE [r EXCEPT !.stderr = Append(@, ErrorEvent(code)),
                       !.err = TRUE, !.pc = "returned"]

RunInit ==
    /\ InitTrackerIdle
    /\ InitWatchIdle
    /\ InitDedupeIdle
    /\ InitFilterIdle
    /\ InitEmitIdle
    /\ InitJsonIdle
    /\ InitRotationIdle
    /\ InitResumeIdle
    /\ InitStoreIdle
    /\ InitWhereIdle
    /\ InitConcIdle
    /\ InitRmwIdle
    /\ now = 0
    /\ run \in
         {[command |-> c, Format |-> f, Quiet |-> q, dryRunJSON |-> d,
           tmux |-> t, pc |-> IF c = "watch" THEN "cooldown" ELSE "flags",
           stdout |-> << >>, stderr |-> << >>, written |-> 0,
           err |-> FALSE, exit |-> -1] :
          c \in {"watch", "flags"}, f \in Formats, q \in BOOLEAN,
          d \in BOOLEAN, t \in BOOLEAN}
    /\ run.command = "watch" => ~run.dryRunJSON /\ ~run.tmux

\* time.ParseDuration(c.Cooldown)
ParseCooldown ==
    /\ run.command = "watch"
    /\ run.pc = "cooldown"
    /\ \E ok \in BOOLEAN :
         run' = IF ok THEN [run EXCEPT !.pc = "triggers"]
                ELSE outputError(run, "INVALID_COOLDOWN")
    /\ UNCHANGED now
    /\ UNCHANGED otherThanRun

\* The loop over c.OnPattern.
ParseTriggers ==
    /\ run.command = "watch"
    /\ run.pc = "triggers"
    /\ \E res \in {"ok", "INVALID_TRIGGER", "INVALID_TRIGGER_PATTERN"} :
         run' = IF res = "ok" THEN [run EXCEPT !.pc = "device"]
                ELSE outputError(run, res)
    /\ UNCHANGED now
    /\ UNCHANGED otherThanRun

\* mgr.FindDevice, then the line that says what is watched.
FindDevice ==
    /\ run.command = "watch"
    /\ run.pc = "device"
    /\ \E ok \in BOOLEAN :
         run' =
           IF ~ok THEN outputError(run, "DEVICE_NOT_FOUND")
           ELSE IF run.Quiet THEN [run EXCEPT !.pc = "patterns"]
           ELSE IF run.Format = "ndjson"
               THEN [run EXCEPT !.pc = "patterns",
                                !.stdout = Append(@, [type |-> "info"])]
           ELSE [run EXCEPT !.pc = "patterns",
                            !.stderr = Append(@, [type |-> "info"])]
    /\ UNCHANGED now
    /\ UNCHANGED otherThanRun

\* regexp.Compile of c.Pattern and of c.Exclude.
CompilePatterns ==
    /\ run.command = "watch"
    /\ run.pc = "patterns"
    /\ \E res \in {"ok", "INVALID_PATTERN", "INVALID_EXCLUDE_PATTERN"} :
         run' = IF res = "ok" THEN [run EXCEPT !.pc = "stream"]
                ELSE outputError(run, res)
    /\ UNCHANGED now
    /\ UNCHANGED otherThanRun

\* streamer.Start
StartStream ==
    /\ run.command = "watch"
    /\ run.pc = "stream"
    /\ \E ok \in BOOLEAN :
         run' = IF ok THEN [run EXCEPT !.pc = "loop"]
                ELSE outputError(run, "STREAM_FAILED")
    /\ UNCHANGED now
    /\ UNCHANGED otherThanRun

\* case entry := <-streamer.Logs(): writer.Write(&entry); Run returns the
\* error of a Write that failed.
WriteEntry ==
    /\ run.command = "watch"
    /\ run.pc = "loop"
    /\ run.written < MaxWrites
    /\ \E ok \in BOOLEAN :
         run' = IF ok
                    THEN [run EXCEPT !.stdout = Append(@, [type |-> "log"]),
                                     !.written = @ + 1]
                ELSE [run EXCEPT !.err = TRUE, !.pc = "returned"]
    /\ UNCHANGED now
    /\ UNCHANGED otherThanRun

\* case err := <-streamer.Errors()
WarnStreamError ==
    /\ run.command = "watch"
    /\ run.pc = "loop"
    /\ run.written < MaxWrites
    /\ run' =
         IF run.Quiet THEN [run EXCEPT !.written = @ + 1]
         ELSE IF run.Format = "ndjson"
             THEN [run EXCEPT !.stdout = Append(@, [type |-> "warning"]),
                              !.written = @ + 1]
         ELSE [run EXCEPT !.stderr = Append(@, [type |-> "warning"]),
                          !.written = @ + 1]
    /\ UNCHANGED now
    /\ UNCHANGED otherThanRun

\* case <-ctx.Done(): Run returns nil.
ContextDone ==
    /\ run.command = "watch"
    /\ run.pc = "loop"
    /\ run' = [run EXCEPT !.pc = "returned"]
    /\ UNCHANGED now
    /\ UNCHANGED otherThanRun

\* validateFlags: the first combination it finds invalid is reported; a
\* command whose flags are valid goes on.
validateFlags(r) ==
    IF r.dryRunJSON /\ r.tmux THEN outputError(r, "INVALID_FLAGS")
    ELSE IF r.dryRunJSON /\ r.Format # "ndjson"
        THEN outputError(r, "INVALID_FLAGS")
    ELSE IF r.Format = "text" /\ r.Quiet THEN outputError(r, "INVALID_FLAGS")
    ELSE [r EXCEPT !.pc = "validated"]

ValidateFlags ==
    /\ run.command = "flags"
    /\ run.pc = "flags"
    /\ run' = validateFlags(run)
    /\ UNCHANGED now
    /\ UNCHANGED otherThanRun

\* main: err = ctx.Run(globals); if err != nil { os.Exit(1) }
Exit ==
    /\ run.pc = "returned"
    /\ run' = [run EXCEPT !.pc = "exited",
                          !.exit = IF run.err THEN 1 ELSE 0]
    /\ UNCHANGED now
    /\ UNCHANGED otherThanRun

RunNext ==
    \/ ParseCooldown
    \/ ParseTriggers
    \/ FindDevice
    \/ CompilePatterns
    \/ StartStream
    \/ WriteEntry
    \/ WarnStreamError
    \/ ContextDone
    \/ ValidateFlags
    \/ Exit

RunSpec == RunInit /\ [][RunNext]_vars

ErrorEvents(lines) == {k \in 1..Len(lines) : lines[k].type = "error"}

\* C23: in ndjson format every path on which the watch command returns an
\* error (invalid cooldown, trigger or pattern, device not found, stream
\* start failure, failure to write a log entry) has emitted an error event
\* on the output before returning.
C23_ErrorEventBeforeErrorReturn ==
    (run.command = "watch" /\ run.Format = "ndjson" /\ run.err) =>
        ErrorEvents(run.stdout) # {}

\* The combinations the flag check is to refuse.
InvalidCombination ==
    \/ run.dryRunJSON /\ run.tmux
    \/ run.dryRunJSON /\ run.Format # "ndjson"
    \/ run.Quiet /\ run.Format = "text"

FlagErrors ==
    Cardinality(ErrorEvents(run.stdout)) + Cardinality(ErrorEvents(run.stderr))

\* C24: an invalid flag combination makes validateFlags emit exactly one
\* INVALID_FLAGS error and the process exit with code 2; every other
\* combination emits nothing and validateFlags returns no error.
C24_InvalidFlagsExitWithCodeTwo ==
    (run.command = "flags" /\ run.pc \notin {"flags", "returned"}) =>
        IF InvalidCombination
            THEN /\ FlagErrors = 1
                 /\ run.exit = 2
            ELSE /\ FlagErrors = 0
                 /\ ~run.err

-----------------------------------------------------------------------------
(* package cli: rotation, the per-session output files of tail.  A file is *)
(* what os.Create returned: open or closed, its content, and (for the      *)
(* properties) what was written to the bufio.Writer wrapping it.  The      *)
(* caller opens a file per session, sessions counting up, and writes to    *)
(* the writer Open returned while its file is open.                        *)

MaxSessions == 3
MaxFileWrites == 3
BufferSize == 2

\* session is the caller's: the session number of the last Open; writes
\* counts the items written so far.
newRotation(pb) ==
    [pathBuilder |-> pb, outputFile |-> 0, bufferedWriter |-> 0,
     buffer |-> << >>, session |-> 0, writes |-> 0]

FlushSkipped(r, fs) ==
    [r |-> r, fs |-> fs]

\* r.bufferedWriter.Flush(), its error dropped: a Flush to a closed file
\* writes nothing.
Flush(r, fs) ==
    IF r.bufferedWriter = 0 \/ ~fs[r.bufferedWriter].open
        THEN [r |-> r, fs |-> fs]
        ELSE [r |-> [r EXCEPT !.buffer = << >>],
              fs |-> [fs EXCEPT ![r.bufferedWriter].content = @ \o r.buffer]]

\* r.outputFile.Close()
closeOutput(r, fs) ==
    IF r.outputFile = 0 THEN fs
    ELSE [fs EXCEPT ![r.outputFile].open = FALSE]

NewFile(session) ==
    [session |-> session, open |-> TRUE, content |-> << >>,
     accepted |-> << >>]

\* rotation.Open; outcome says whether pathBuilder and os.Create succeed.
Open(r, fs, session, outcome) ==
    IF ~r.pathBuilder THEN [r |-> [r EXCEPT !.session = session], fs |-> fs]
    ELSE LET fl == Flush(r, fs)
             closed == closeOutput(fl.r, fl.fs)
             opened == [fl.r EXCEPT !.session = session]
         IN  IF outcome = "path-error" THEN [r |-> opened, fs |-> closed]
             ELSE IF outcome = "create-error"
                 THEN [r |-> [opened EXCEPT !.outputFile = 0], fs |-> closed]
             ELSE [r |-> [opened EXCEPT !.outputFile = Len(closed) + 1,
                                        !.bufferedWriter = Len(closed) + 1,
                                        !.buffer = << >>],
                   fs |-> Append(closed, NewFile(session))]

\* rotation.Close
Close(r, fs) ==
    LET fl == Flush(r, fs)
    IN  [r |-> fl.r, fs |-> closeOutput(fl.r, fl.fs)]

\* bufio.Writer.Write of one item: a full buffer goes to the file first.
Write(r, fs, item) ==
    LET w == r.bufferedWriter
        room == Len(r.buffer) < BufferSize
    IN  [r |-> [r EXCEPT !.buffer = IF room THEN Append(@, item)
                                    ELSE <<item>>,
                         !.writes = @ + 1],
         fs |-> [fs EXCEPT
                   ![w].content = IF room THEN @ ELSE @ \o r.buffer,
                   ![w].accepted = Append(@, item)]]

RotationInit ==
    /\ InitTrackerIdle
    /\ InitWatchIdle
    /\ InitDedupeIdle
    /\ InitFilterIdle
    /\ InitEmitIdle
    /\ InitJsonIdle
    /\ InitRunIdle
    /\ InitResumeIdle
    /\ InitStoreIdle
    /\ InitWhereIdle
    /\ InitConcIdle
    /\ InitRmwIdle
    /\ now = 0
    /\ rotation \in {newRotation(pb) : pb \in BOOLEAN}
    /\ files = << >>

RotationOpen ==
    /\ rotation.session < MaxSessions
    /\ \E outcome \in {"ok", "path-error", "create-error"} :
         LET res == Open(rotation, files, rotation.session + 1, outcome)
         IN  /\ rotation' = res.r
             /\ files' = res.fs
    /\ UNCHANGED now
    /\ UNCHANGED otherThanRotation

RotationClose ==
    /\ LET res == Close(rotation, files)
       IN  /\ rotation' = res.r
           /\ files' = res.fs
    /\ UNCHANGED now
    /\ UNCHANGED otherThanRotation

RotationWrite ==
    /\ rotation.bufferedWriter # 0
    /\ files[rotation.bufferedWriter].open
    /\ rotation.writes < MaxFileWrites
    /\ LET res == Write(rotation, files, rotation.writes + 1)
       IN  /\ rotation' = res.r
           /\ files' = res.fs
    /\ UNCHANGED now
    /\ UNCHANGED otherThanRotation

RotationNext ==
    \/ RotationOpen
    \/ RotationClose
    \/ RotationWrite

RotationSpec == RotationInit /\ [][RotationNext]_vars

OpenFiles == {f \in 1..Len(files) : files[f].open}

-----------------------------------------------------------------------------
(* package cli: the resume file.  saveResumeState marshals the state and   *)
(* hands it to os.WriteFile, which opens the file itself with O_TRUNC,     *)
(* writes and closes; the process can be stopped between any two of these  *)
(* steps, and loadResumeState can read the file between any two of them.   *)
(* A state is its version number; the file holds the first pieces of the   *)
(* text of one version.                                                    *)

MaxSaves == 2
MaxLoads == 3
FilePieces == 2

NoFile == [exists |-> FALSE]
FileOf(version, pieces) ==
    [exists |-> TRUE, version |-> version, pieces |-> pieces]

\* loadResumeState on a file: nil for none, the state for a complete text,
\* the error of json.Unmarshal for an empty or a cut one.
loadResumeState(file) ==
    IF ~file.exists THEN [kind |-> "none"]
    ELSE IF file.pieces = FilePieces
        THEN [kind |-> "state", version |-> file.version]
    ELSE [kind |-> "error"]

ResumeInit ==
    /\ InitTrackerIdle
    /\ InitWatchIdle
    /\ InitDedupeIdle
    /\ InitFilterIdle
    /\ InitEmitIdle
    /\ InitJsonIdle
    /\ InitRunIdle
    /\ InitRotationIdle
    /\ InitStoreIdle
    /\ InitWhereIdle
    /\ InitConcIdle
    /\ InitRmwIdle
    /\ now = 0
    /\ resume \in [file : {NoFile, FileOf(0, FilePieces)}, pc : {"idle"},
                    saves : {0}, loads : {0},
                    loaded : {[kind |-> "unread"]}]

\* saveResumeState up to the open of os.WriteFile: the file exists and is
\* empty.
SaveBegins ==
    /\ resume.pc = "idle"
    /\ resume.saves < MaxSaves
    /\ resume' = [resume EXCEPT !.pc = "writing", !.saves = @ + 1,
                                !.file = FileOf(resume.saves + 1, 0)]
    /\ UNCHANGED now
    /\ UNCHANGED otherThanResume

\* The next piece of the text reaches the file.
SaveWrites ==
    /\ resume.pc = "writing"
    /\ resume.file.pieces < FilePieces
    /\ resume' = [resume EXCEPT !.file.pieces = @ + 1]
    /\ UNCHANGED now
    /\ UNCHANGED otherThanResume

\* os.WriteFile closes the file and saveResumeState returns.
SaveEnds ==
    /\ resume.pc = "writing"
    /\ resume.file.pieces = FilePieces
    /\ resume' = [resume EXCEPT !.pc = "idle"]
    /\ UNCHANGED now
    /\ UNCHANGED otherThanResume

\* The process is stopped during the save; the next run starts idle.
SaveInterrupted ==
    /\ resume.pc = "writing"
    /\ resume' = [resume EXCEPT !.pc = "idle"]
    /\ UNCHANGED now
    /\ UNCHANGED otherThanResume

\* loadResumeState, by this process or another one, at any moment.
Load ==
    /\ resume.loads < MaxLoads
    /\ resume' = [resume EXCEPT !.loaded = loadResumeState(resume.file),
                                !.loads = @ + 1]
    /\ UNCHANGED now
    /\ UNCHANGED otherThanResume

ResumeNext ==
    \/ SaveBegins
    \/ SaveWrites
    \/ SaveEnds
    \/ SaveInterrupted
    \/ Load

ResumeSpec == ResumeInit /\ [][ResumeNext]_vars

\* C26: saveResumeState replaces the resume file atomically: a load that
\* runs during a save, or after a save that was interrupted, observes the
\* complete previous state or the complete new one (or no state, when none
\* was ever saved), never an empty or partially written file.
C26_LoadSeesACompleteState ==
    resume.loaded.kind \in {"unread", "none", "state"}

-----------------------------------------------------------------------------
(* package output: the pattern store.  RecordPattern runs under the        *)
(* store's mutex: it looks the pattern up, then stores the new total.  The *)
(* callers are goroutines as in TestPatternStore_Concurrency, each making  *)
(* its calls one after the other.  First-seen and last-seen times are left *)
(* out.                                                                    *)

MaxRecords == 2

\* The goroutines of the test, two of its ten.
Goroutines == {1, 2}
PatternTexts == {"p", "q"}
Counts == {1, 2}

\* GetPattern of a pattern the store does not know.
NoPattern == [known |-> FALSE, TotalCount |-> 0]

\* NewPatternStore("") followed by Clear().
NewPatternStore == [mu |-> 0, patterns |-> [m \in PatternTexts |-> NoPattern]]

mutexNeverHeld(s) ==
    TRUE

\* The mutex can be taken.
mutexFree(s) ==
    s.mu = 0

recordPatternOverwrites(p, count) ==
    [entry |-> [known |-> TRUE, TotalCount |-> count], isNew |-> ~p.known]

\* The body of RecordPattern on the entry p it found: what it stores and
\* what it returns.
recordPattern(p, count) ==
    [entry |-> [known |-> TRUE, TotalCount |-> p.TotalCount + count],
     isNew |-> ~p.known]

\* What the calls that returned add up to, per pattern.
NoneReturned ==
    [m \in PatternTexts |->
        [calls |-> 0, sum |-> 0, trues |-> 0, firstNew |-> FALSE]]

StoreInit ==
    /\ InitTrackerIdle
    /\ InitWatchIdle
    /\ InitDedupeIdle
    /\ InitFilterIdle
    /\ InitEmitIdle
    /\ InitJsonIdle
    /\ InitRunIdle
    /\ InitRotationIdle
    /\ InitResumeIdle
    /\ InitWhereIdle
    /\ InitConcIdle
    /\ InitRmwIdle
    /\ now = 0
    /\ store = NewPatternStore
    /\ recorders =
         [at |-> [g \in Goroutines |->
                    [pc |-> "idle", m |-> "p", count |-> 1,
                     seen |-> NoPattern, calls |-> 0]],
          returned |-> NoneReturned,
          waited |-> FALSE]

\* Goroutine g calls RecordPattern(m, count) and arrives at the mutex.
RecordCalled(g, m, count) ==
    /\ recorders.at[g].pc = "idle"
    /\ recorders.at[g].calls < MaxRecords
    /\ recorders' =
         [recorders EXCEPT
            !.at[g] = [@ EXCEPT !.pc = "lock", !.m = m, !.count = count],
            !.waited = @ \/ store.mu # 0]
    /\ UNCHANGED <<now, store>>
    /\ UNCHANGED otherThanStore

\* g takes the mutex.
RecordLocks(g) ==
    /\ recorders.at[g].pc = "lock"
    /\ mutexFree(store)
    /\ store' = [store EXCEPT !.mu = g]
    /\ recorders' = [recorders EXCEPT !.at[g].pc = "read"]
    /\ UNCHANGED now
    /\ UNCHANGED otherThanStore

\* g looks the pattern up.
RecordReads(g) ==
    /\ recorders.at[g].pc = "read"
    /\ recorders' =
         [recorders EXCEPT
            !.at[g].pc = "write",
            !.at[g].seen = store.patterns[recorders.at[g].m]]
    /\ UNCHANGED <<now, store>>
    /\ UNCHANGED otherThanStore

\* g stores the new total, releases the mutex and returns.
RecordReturns(g) ==
    /\ recorders.at[g].pc = "write"
    /\ LET a == recorders.at[g]
           res == recordPattern(a.seen, a.count)
           r == recorders.returned[a.m]
       IN  /\ store' = [store EXCEPT !.patterns[a.m] = res.entry, !.mu = 0]
           /\ recorders' =
                [recorders EXCEPT
                   !.at[g].pc = "idle",
                   !.at[g].calls = @ + 1,
                   !.returned[a.m] =
                       [calls |-> r.calls + 1,
                        sum |-> r.sum + a.count,
                        trues |-> r.trues + IF res.isNew THEN 1 ELSE 0,
                        firstNew |-> IF r.calls = 0 THEN res.isNew
                                     ELSE r.firstNew]]
    /\ UNCHANGED now
    /\ UNCHANGED otherThanStore

StoreNext ==
    \/ \E g \in Goroutines, m \in PatternTexts, count \in Counts :
            RecordCalled(g, m, count)
    \/ \E g \in Goroutines : RecordLocks(g)
    \/ \E g \in Goroutines : RecordReads(g)
    \/ \E g \in Goroutines : RecordReturns(g)

StoreSpec == StoreInit /\ [][StoreNext]_vars

\* C27: RecordPattern(m, c) returns true iff m was unknown and adds c to
\* the total count of m: the total of m is the sum of the counts of the
\* calls that returned (N after N calls with count 1), and of the calls for
\* m exactly one returned true, the first.
C27_TotalIsSumOneCallIsNew ==
    \A m \in PatternTexts :
        LET r == recorders.returned[m]
        IN  /\ store.patterns[m].TotalCount = r.sum
            /\ store.patterns[m].known <=> r.calls > 0
            /\ r.calls > 0 => r.firstNew /\ r.trues = 1

\* A pattern recorded twice with different counts.
C27_Witness ==
    \E m \in PatternTexts :
        /\ recorders.returned[m].calls = 2
        /\ recorders.returned[m].sum = 3
        /\ store.patterns[m].TotalCount = 3

AllCalls == Cardinality(Goroutines) * MaxRecords

\* C28: concurrent RecordPattern calls for one pattern lose no update:
\* after every goroutine made all its calls RecordPattern(m, 1), the total
\* count of m is the number of calls and exactly one call returned true.
C28_ConcurrentCallsLoseNothing ==
    \A m \in PatternTexts :
        (/\ \A g \in Goroutines : /\ recorders.at[g].pc = "idle"
                                  /\ recorders.at[g].calls = MaxRecords
         /\ recorders.returned[m].calls = AllCalls
         /\ recorders.returned[m].sum = AllCalls)
        => /\ store.patterns[m].TotalCount = AllCalls
           /\ recorders.returned[m].trues = 1

\* All goroutines are done with their calls for one pattern, and a call
\* arrived while another goroutine held the mutex.
C28_Witness ==
    \E m \in PatternTexts :
        /\ \A g \in Goroutines : recorders.at[g].calls = MaxRecords
        /\ recorders.returned[m].calls = AllCalls
        /\ recorders.returned[m].sum = AllCalls
        /\ recorders.waited
        /\ store.patterns[m].TotalCount = AllCalls

-----------------------------------------------------------------------------
(* NewWhereFilter applied to one clause, field + operator + value, and the *)
(* filter it returns applied to an entry.                                   *)

LevelField == <<"l", "e", "v", "e", "l">>

ClauseFields ==
    {LevelField, <<"L", "e", "v", "e", "l">>, <<"p", "i", "d">>,
     <<"m", "e", "s", "s", "a", "g", "e">>, <<"f", "o", "o">>}

ClauseOperators == {<<">", "=">>, <<"<", "=">>, <<"=">>}

\* Level names in several spellings, a name that is none, a number.
ClauseValues ==
    {<<"d", "e", "b", "u", "g">>, <<"I", "N", "F", "O">>,
     <<"D", "e", "f", "a", "u", "l", "t">>, <<"e", "r", "r", "o", "r">>,
     <<"E", "r", "r", "o", "r">>, <<"F", "A", "U", "L", "T">>,
     <<"w", "a", "r", "n", "i", "n", "g">>, <<"1", "2">>}

\* Entries of every level, one of them of a level that is none of the five.
LevelEntries ==
    [Level : {"Debug", "Info", "Default", "Error", "Fault", "unknown"},
     Subsystem : {App}, Category : {<<"n", "e", "t">>},
     Process : {<<"a", "p", "p">>}, Message : {<<"o", "k">>}, PID : {12}]

WhereInit ==
    /\ InitTrackerIdle
    /\ InitWatchIdle
    /\ InitDedupeIdle
    /\ InitFilterIdle
    /\ InitEmitIdle
    /\ InitJsonIdle
    /\ InitRunIdle
    /\ InitRotationIdle
    /\ InitResumeIdle
    /\ InitStoreIdle
    /\ InitConcIdle
    /\ InitRmwIdle
    /\ now = 0
    /\ wf \in [pc : {"new"}, field : ClauseFields, op : ClauseOperators,
                value : ClauseValues, filter : {Nil}, entry : {Nil},
                matched : {FALSE}]

\* NewWhereFilter([]string{field + op + value})
BuildWhere ==
    /\ wf.pc = "new"
    /\ wf' = [wf EXCEPT
                !.pc = "built",
                !.filter = NewWhereFilter(<<wf.field \o wf.op \o wf.value>>)]
    /\ UNCHANGED now
    /\ UNCHANGED otherThanWhere

\* filter.Match(&entry) on the filter NewWhereFilter returned.
MatchWhere ==
    /\ wf.pc = "built"
    /\ ~wf.filter.err
    /\ \E entry \in LevelEntries :
         wf' = [wf EXCEPT !.pc = "matched", !.entry = entry,
                          !.matched = WhereFilterMatch(wf.filter, entry)]
    /\ UNCHANGED now
    /\ UNCHANGED otherThanWhere

WhereNext ==
    \/ BuildWhere
    \/ MatchWhere

WhereSpec == WhereInit /\ [][WhereNext]_vars

\* The fields a clause may name.
ValidWhereFields ==
    {LevelField, <<"s", "u", "b", "s", "y", "s", "t", "e", "m">>,
     <<"c", "a", "t", "e", "g", "o", "r", "y">>,
     <<"p", "r", "o", "c", "e", "s", "s">>,
     <<"m", "e", "s", "s", "a", "g", "e">>, <<"p", "i", "d">>}

IsComparison == wf.op \in {<<">", "=">>, <<"<", "=">>}

\* C29: NewWhereFilter returns an error and no filter for a clause whose
\* field is not one of level, subsystem, category, process, message, pid,
\* and for a clause that applies >= or <= to a field other than level.
C29_InvalidClausesAreRejected ==
    (/\ wf.pc # "new"
     /\ \/ ToLower(wf.field) \notin ValidWhereFields
        \/ IsComparison /\ ToLower(wf.field) # LevelField)
    => wf.filter.err

\* The severity the level names stand for: Debug 0, Info 1, Default 2,
\* Error 3, Fault 4, any other name Default.
Severity(name) ==
    LET l == ToLower(name)
    IN  IF l = <<"d", "e", "b", "u", "g">> THEN 0
        ELSE IF l = <<"i", "n", "f", "o">> THEN 1
        ELSE IF l = <<"e", "r", "r", "o", "r">> THEN 3
        ELSE IF l = <<"f", "a", "u", "l", "t">> THEN 4
        ELSE 2

\* C30: a clause level>=V (level<=V) matches an entry iff the severity of
\* the entry's level is at least (at most) the severity of the level V
\* names, V read case-insensitively, an unrecognised V or entry level
\* counting as Default.
C30_LevelComparisonIsBySeverity ==
    (wf.pc = "matched" /\ IsComparison /\ ToLower(wf.field) = LevelField) =>
        LET entrySeverity == Severity(LevelString(wf.entry.Level))
            targetSeverity == Severity(wf.value)
        IN  wf.matched <=>
                IF wf.op = <<">", "=">> THEN entrySeverity >= targetSeverity
                ELSE entrySeverity <= targetSeverity

\* level>=error, the name in lower case, matched against a Fault entry.
C30_Witness ==
    /\ wf.pc = "matched"
    /\ wf.field = LevelField
    /\ wf.op = <<">", "=">>
    /\ wf.value = <<"e", "r", "r", "o", "r">>
    /\ wf.entry.Level = "Fault"
    /\ wf.matched

\* C31: a clause level=V matches an entry exactly when V names the entry's
\* level, the name compared case-insensitively: level=error and level=Error
\* both match an entry of level Error and no entry of another level.
C31_LevelEqualityIgnoresCase ==
    (wf.pc = "matched" /\ wf.op = <<"=">> /\ ToLower(wf.field) = LevelField)
        => (wf.matched <=>
                ToLower(wf.value) = ToLower(LevelString(wf.entry.Level)))

\* The last-fire time the loop keeps for the trigger: lastErrorTrigger,
\* lastFaultTrigger or lastPatternTriggers[i].
LastFireTime(w, triggerType) ==
    CASE triggerType = <<"error">> -> w.lastErrorTrigger
      [] triggerType = <<"fault">> -> w.lastFaultTrigger
      [] OTHER ->
            w.lastPatternTriggers[
                CHOOSE i \in 1..Len(triggers) : triggers[i].pattern = triggerType[2]]

\* The triggers whose command this step starts.
FiredInStep ==
    {procs'[i].triggerType : i \in (Len(procs) + 1)..Len(procs')}

\* C32: each trigger has its own cooldown clock.  The last-fire time of a
\* trigger becomes the time of the step when that trigger fires and is left
\* as it was by every step in which it does not fire, whatever other
\* triggers fire in the step; and a matching trigger fires exactly if its
\* own last-fire time has cooled down, whatever the other last-fire times.
C32_EachTriggerHasItsOwnClock ==
    [][\A tt \in TriggerTypes :
          /\ IF tt \in FiredInStep
             THEN LastFireTime(watch', tt) = now'
             ELSE LastFireTime(watch', tt) = LastFireTime(watch, tt)
          /\ EntryProcessed =>
                (tt \in FiredInStep <=>
                    /\ TriggerMatches(tt, stdout'[Len(stdout) + 1])
                    /\ cooledDown(now', LastFireTime(watch, tt), watch.cooldown))
      ]_vars

\* The error trigger is held back by its cooldown while a pattern trigger
\* fires on the same entry.
C32_Witness ==
    /\ watch.cooldown = 1
    /\ now = 0
    /\ Len(stdout) = 4
    /\ stdout[2].type = "trigger" /\ stdout[2].trigger = <<"error">>
    /\ stdout[3].type = "log" /\ stdout[3].level = LogLevelError
    /\ stdout[4].type = "trigger"
    /\ stdout[4].trigger = <<"pattern:", <<"crash">>>>
    /\ watch.lastErrorTrigger = 0
    /\ watch.lastPatternTriggers[1] = 0
    /\ watch.lastPatternTriggers[2] = ZeroTime
    /\ watch.lastFaultTrigger = ZeroTime

\* C33: an entry the tracker tracks whose PID differs from the PID of the
\* open session but is not positive never ends the session: CheckEntry
\* returns no change, the session number, the current PID and the start of
\* the session stay the same, and the entry is counted in the open session.
C33_NonPositivePIDNeverEndsSession ==
    LET e == lastCall.entry
        b == lastCall.before
    IN  (/\ calls >= 1
         /\ StartsWithBundle(e.Subsystem)
         /\ b.initialized
         /\ e.PID # b.currentPID
         /\ e.PID <= 0) =>
            /\ lastCall.change = Nil
            /\ tracker.currentSession = b.currentSession
            /\ tracker.currentPID = b.currentPID
            /\ tracker.sessionStart = b.sessionStart
            /\ tracker.logCount = b.logCount + 1
            /\ tracker.errorCount =
                 b.errorCount + (IF e.Level = LogLevelError THEN 1 ELSE 0)
            /\ tracker.faultCount =
                 b.faultCount + (IF e.Level = LogLevelFault THEN 1 ELSE 0)

\* An entry of the bundle without a PID arrived in a session of PID 111.
C33_Witness ==
    /\ calls = 2
    /\ OfTracedBundle(lastCall.entry)
    /\ lastCall.before.initialized
    /\ lastCall.before.currentPID = 111
    /\ lastCall.entry.PID = 0
    /\ lastCall.entry.Level = LogLevelFault
    /\ tracker.currentSession = 1
    /\ tracker.logCount = 2

-----------------------------------------------------------------------------
(* package session: one Tracker called from several goroutines *)

MaxTrackerCalls == 2

TrackerMethods == {"CheckEntry", "GetFinalSummary", "CurrentSession", "Stats"}

\* Entries of the traced bundle, from two processes.
ConcEntries ==
    [Subsystem : {App}, PID : {111, 222}, ProcessImageUUID : {"UUID-1"},
     Level : {LogLevelInfo, LogLevelError}]

CurrentSession(t) == t.currentSession

Stats(t) ==
    <<t.currentSession, t.currentPID, t.logCount, t.errorCount, t.faultCount>>

\* What the reading method returns on the fields t.
readTracker(method, t, clock) ==
    CASE method = "GetFinalSummary" -> [summary |-> GetFinalSummary(t, clock)]
      [] method = "CurrentSession" -> [session |-> CurrentSession(t)]
      [] OTHER -> [stats |-> Stats(t)]

trackerMutexNeverHeld(s) ==
    TRUE

\* t.mu.Lock() returns: no goroutine holds the mutex.
trackerMutexFree(s) ==
    s.mu = 0

\* The assignments of CheckEntry to the fields that identify the session.
writeSession(t, res) ==
    [t EXCEPT !.initialized = res.initialized,
              !.currentSession = res.currentSession,
              !.currentPID = res.currentPID,
              !.sessionStart = res.sessionStart]

\* The assignments of CheckEntry to the counters.
writeCounts(t, res) ==
    [t EXCEPT !.logCount = res.logCount,
              !.errorCount = res.errorCount,
              !.faultCount = res.faultCount]

\* A goroutine that is not in a call, after n calls.
IdleCaller(n) ==
    [pc |-> "idle", method |-> "Stats",
     entry |-> CHOOSE e \in ConcEntries : TRUE,
     seen |-> NewTracker, expect |-> NewTracker, calls |-> n]

ConcInit ==
    /\ InitTrackerIdle
    /\ InitWatchIdle
    /\ InitDedupeIdle
    /\ InitFilterIdle
    /\ InitEmitIdle
    /\ InitJsonIdle
    /\ InitRunIdle
    /\ InitRotationIdle
    /\ InitResumeIdle
    /\ InitStoreIdle
    /\ InitWhereIdle
    /\ InitRmwIdle
    /\ now = 0
    /\ shared = [mu |-> 0, t |-> NewTracker, committed |-> NewTracker]
    /\ callers =
         [at |-> [g \in Goroutines |-> IdleCaller(0)],
          starts |-> << >>,
          ends |-> << >>,
          ended |-> [logs |-> 0, errors |-> 0],
          done |-> [logs |-> 0, errors |-> 0],
          lastRead |-> [method |-> "", consistent |-> TRUE],
          waited |-> FALSE]

\* Goroutine g calls a method of the tracker and arrives at t.mu.Lock().
TrackerCalled(g, method, entry) ==
    /\ callers.at[g].pc = "idle"
    /\ callers.at[g].calls < MaxTrackerCalls
    /\ callers' =
         [callers EXCEPT
            !.at[g] = [@ EXCEPT !.pc = "lock", !.method = method,
                                !.entry = entry],
            !.waited = @ \/ shared.mu # 0]
    /\ UNCHANGED <<now, shared>>
    /\ UNCHANGED otherThanConc

\* g takes the mutex.
TrackerLocks(g) ==
    /\ callers.at[g].pc = "lock"
    /\ trackerMutexFree(shared)
    /\ shared' = [shared EXCEPT !.mu = g]
    /\ callers' = [callers EXCEPT !.at[g].pc = "read"]
    /\ UNCHANGED now
    /\ UNCHANGED otherThanConc

\* g reads the fields of the tracker.
TrackerReads(g) ==
    /\ callers.at[g].pc = "read"
    /\ callers' =
         [callers EXCEPT
            !.at[g].pc = IF callers.at[g].method = "CheckEntry"
                         THEN "session" ELSE "return",
            !.at[g].seen = shared.t,
            !.at[g].expect = shared.committed]
    /\ UNCHANGED <<now, shared>>
    /\ UNCHANGED otherThanConc

\* CheckEntry in g assigns the session fields.
TrackerWritesSession(g) ==
    /\ callers.at[g].pc = "session"
    /\ LET a == callers.at[g]
           res == CheckEntry(a.seen, a.entry, now)
       IN  shared' = [shared EXCEPT !.t = writeSession(@, res.tracker)]
    /\ callers' = [callers EXCEPT !.at[g].pc = "counts"]
    /\ UNCHANGED now
    /\ UNCHANGED otherThanConc

\* CheckEntry in g assigns the counters, releases the mutex and returns its
\* SessionChange.
TrackerCheckReturns(g) ==
    /\ callers.at[g].pc = "counts"
    /\ LET a == callers.at[g]
           res == CheckEntry(a.seen, a.entry, now)
           c == res.change
           t1 == writeCounts(shared.t, res.tracker)
           isError == IF a.entry.Level = LogLevelError THEN 1 ELSE 0
       IN  /\ shared' = [mu |-> 0, t |-> t1, committed |-> t1]
           /\ callers' =
                [callers EXCEPT
                   !.at[g] = IdleCaller(@.calls + 1),
                   !.starts = IF c # Nil /\ c.StartSession # Nil
                              THEN Append(@, c.StartSession.Session) ELSE @,
                   !.ends = IF c # Nil /\ c.EndSession # Nil
                            THEN Append(@, c.EndSession.Session) ELSE @,
                   !.ended = IF c # Nil /\ c.EndSession # Nil
                             THEN [logs |-> @.logs + c.EndSession.Summary.TotalLogs,
                                   errors |-> @.errors + c.EndSession.Summary.Errors]
                             ELSE @,
                   !.done = [logs |-> @.logs + 1, errors |-> @.errors + isError]]
    /\ UNCHANGED now
    /\ UNCHANGED otherThanConc

\* GetFinalSummary, CurrentSession or Stats in g releases the mutex and
\* returns what it read.
TrackerReadReturns(g) ==
    /\ callers.at[g].pc = "return"
    /\ LET a == callers.at[g] IN
       callers' =
         [callers EXCEPT
            !.at[g] = IdleCaller(@.calls + 1),
            !.lastRead =
                [method |-> a.method,
                 consistent |-> readTracker(a.method, a.seen, now)
                                    = readTracker(a.method, a.expect, now)]]
    /\ shared' = [shared EXCEPT !.mu = 0]
    /\ UNCHANGED now
    /\ UNCHANGED otherThanConc

ConcNext ==
    \/ \E g \in Goroutines, method \in TrackerMethods, entry \in ConcEntries :
            TrackerCalled(g, method, entry)
    \/ \E g \in Goroutines : TrackerLocks(g)
    \/ \E g \in Goroutines : TrackerReads(g)
    \/ \E g \in Goroutines : TrackerWritesSession(g)
    \/ \E g \in Goroutines : TrackerCheckReturns(g)
    \/ \E g \in Goroutines : TrackerReadReturns(g)

ConcSpec == ConcInit /\ [][ConcNext]_vars

\* C34: CheckEntry, GetFinalSummary, CurrentSession and Stats are atomic
\* with respect to each other.  Whatever the interleaving, the session
\* numbers the CheckEntry calls returned in session_start events are 1, 2,
\* 3, ... without gap or duplicate (so one call opens session 1), the
\* session_end events returned end the sessions 1, 2, ... before the current
\* one, no counter update is lost (the logs and errors of the ended sessions
\* and of the current one add up to the calls that returned), and a reading
\* method returns the fields as a completed CheckEntry left them.
C34_CallsAreAtomic ==
    /\ \A i \in 1..Len(callers.starts) : callers.starts[i] = i
    /\ \A i \in 1..Len(callers.ends) : callers.ends[i] = i
    /\ Len(callers.starts) = shared.committed.currentSession
    /\ callers.done.logs >= 1 =>
            Len(callers.ends) = Len(callers.starts) - 1
    /\ callers.ended.logs + shared.committed.logCount = callers.done.logs
    /\ callers.ended.errors + shared.committed.errorCount = callers.done.errors
    /\ callers.lastRead.consistent
    /\ shared.mu = 0 => shared.t = shared.committed

\* Both goroutines made their calls, a call arrived while the other
\* goroutine held the mutex, two sessions were opened and a reading method
\* returned.
C34_Witness ==
    /\ \A g \in Goroutines : /\ callers.at[g].pc = "idle"
                             /\ callers.at[g].calls = MaxTrackerCalls
    /\ callers.waited
    /\ callers.starts = <<1, 2>>
    /\ callers.ends = <<1>>
    /\ callers.done.logs = 3
    /\ callers.lastRead.method = "Stats"

-----------------------------------------------------------------------------
(* Properties of the duplicate summaries *)

\* C35: GetPendingDuplicates returns only duplicates not reported yet.  Of
\* two calls with no Check call between them, so that no further duplicate
\* was suppressed, the later one returns no group the earlier one returned.
C35_PendingDuplicatesReportedOnce ==
    \A i, j \in 1..Len(reports) :
        (i < j /\ reports[i].at = reports[j].at) =>
            reports[i].groups \cap reports[j].groups = {}

-----------------------------------------------------------------------------
(* package cli: a read-modify-write of the resume file.  The file holds one
   JSON object, a function from its keys to their values. *)

EmptyObject == [k \in {} |-> ""]

\* The keys of the fields of resumeState, from their json tags.
KnownKeys ==
    {"type", "schemaVersion", "app", "udid", "last_seen_timestamp",
     "last_log_timestamp", "updated_at"}

\* The keys a file may hold besides: written by another version or by hand.
UnknownKeys == {"cursor", "note"}

Timestamps == {"", "22:00:00Z", "22:00:01Z"}

\* A member of a JSON object; with omitempty it is left out when empty.
Member(key, value) == key :> value

OmitEmpty(key, value) ==
    IF value = "" THEN EmptyObject ELSE key :> value

\* json.MarshalIndent of a resumeState: the fields of the struct, no others.
jsonMarshal(st) ==
    Member("type", st.Type) @@ Member("schemaVersion", st.SchemaVersion) @@
    Member("app", st.App) @@ OmitEmpty("udid", st.UDID) @@
    OmitEmpty("last_seen_timestamp", st.LastSeenTimestamp) @@
    OmitEmpty("last_log_timestamp", st.LastLogTimestamp) @@
    OmitEmpty("updated_at", st.UpdatedAt)

\* The value of a key of the object, the zero value if it has none.
ValueOf(object, key, zero) ==
    IF key \in DOMAIN object THEN object[key] ELSE zero

\* json.Unmarshal into a resumeState: the keys of its fields are decoded,
\* every other key of the object is skipped.
jsonUnmarshal(object) ==
    [Type |-> ValueOf(object, "type", ""),
     SchemaVersion |-> ValueOf(object, "schemaVersion", 0),
     App |-> ValueOf(object, "app", ""),
     UDID |-> ValueOf(object, "udid", ""),
     LastSeenTimestamp |-> ValueOf(object, "last_seen_timestamp", ""),
     LastLogTimestamp |-> ValueOf(object, "last_log_timestamp", ""),
     UpdatedAt |-> ValueOf(object, "updated_at", "")]

\* The objects with some of the unknown keys.
UnknownMembers ==
    { [k \in keys |-> "x"] : keys \in SUBSET UnknownKeys } \cup
    { [k \in UnknownKeys |-> IF k = "note" THEN "x" ELSE "y"] }

\* The resume files: what a version of the tool saved, and what else the
\* object holds.
ResumeFiles ==
    { jsonMarshal([Type |-> "resume_state", SchemaVersion |-> 1,
                   App |-> "com.ex", UDID |-> udid,
                   LastSeenTimestamp |-> seen, LastLogTimestamp |-> log,
                   UpdatedAt |-> seen]) @@ others :
        udid \in {"", "ABC123"}, seen \in Timestamps, log \in Timestamps,
        others \in UnknownMembers }

RmwInit ==
    /\ InitTrackerIdle
    /\ InitWatchIdle
    /\ InitDedupeIdle
    /\ InitFilterIdle
    /\ InitEmitIdle
    /\ InitJsonIdle
    /\ InitRunIdle
    /\ InitRotationIdle
    /\ InitResumeIdle
    /\ InitStoreIdle
    /\ InitWhereIdle
    /\ InitConcIdle
    /\ now = 0
    /\ rmw \in { [pc |-> "file", file |-> f, original |-> f, st |-> Nil] :
                 f \in ResumeFiles }

\* loadResumeState(path)
RmwLoad ==
    /\ rmw.pc = "file"
    /\ rmw' = [rmw EXCEPT !.pc = "loaded", !.st = jsonUnmarshal(rmw.file)]
    /\ UNCHANGED now
    /\ UNCHANGED otherThanRmw

\* The caller sets the timestamps of the loaded state.
RmwChange ==
    /\ rmw.pc = "loaded"
    /\ \E seen \in Timestamps \ {""}, log \in Timestamps :
         rmw' = [rmw EXCEPT !.pc = "changed",
                            !.st.LastSeenTimestamp = seen,
                            !.st.LastLogTimestamp = log,
                            !.st.UpdatedAt = seen]
    /\ UNCHANGED now
    /\ UNCHANGED otherThanRmw

\* saveResumeState(path, st)
RmwSave ==
    /\ rmw.pc = "changed"
    /\ rmw' = [rmw EXCEPT !.pc = "saved", !.file = jsonMarshal(rmw.st)]
    /\ UNCHANGED now
    /\ UNCHANGED otherThanRmw

RmwNext == RmwLoad \/ RmwChange \/ RmwSave

RmwSpec == RmwInit /\ [][RmwNext]_vars

\* C36: a read-modify-write of the resume file preserves every key of the
\* file the current version does not know: the saved file holds each such
\* key with its original value.
C36_UnknownKeysArePreserved ==
    rmw.pc = "saved" =>
        \A k \in DOMAIN rmw.original \ KnownKeys :
            /\ k \in DOMAIN rmw.file
            /\ rmw.file[k] = rmw.original[k]

-----------------------------------------------------------------------------
(* Properties of the session counters *)

\* C37: in every reachable state of the tracker errorCount + faultCount <=
\* logCount, and logCount >= 1 whenever a session is open; so every session
\* summary, of a relaunch or of the shutdown, has errors + faults <=
\* total_logs.
C37_ErrorsAndFaultsWithinLogs ==
    /\ tracker.errorCount + tracker.faultCount <= tracker.logCount
    /\ tracker.initialized => tracker.logCount >= 1
    /\ (calls >= 1 /\ lastCall.change # Nil /\ lastCall.change.EndSession # Nil) =>
            LET s == lastCall.change.EndSession.Summary
            IN  s.Errors + s.Faults <= s.TotalLogs /\ s.TotalLogs >= 1
    /\ (final # Running /\ final # Nil) =>
            final.Summary.Errors + final.Summary.Faults <= final.Summary.TotalLogs

\* A session of an error and a fault and nothing else was ended by a relaunch
\* whose entry is an error, and the shutdown summary was taken.
C37_Witness ==
    /\ calls = 3
    /\ lastCall.change # Nil
    /\ lastCall.change.EndSession # Nil
    /\ lastCall.change.EndSession.Summary.TotalLogs = 2
    /\ lastCall.change.EndSession.Summary.Errors = 1
    /\ lastCall.change.EndSession.Summary.Faults = 1
    /\ tracker.logCount = 1
    /\ tracker.errorCount = 1
    /\ final # Running
    /\ final # Nil
    /\ final.Summary.Errors = 1

-----------------------------------------------------------------------------
(* Properties of the sliding window *)

\* The Check calls i..k for the message of call i.
OccurrencesBetween(i, k) ==
    {p \in i..k : checked[p].message = checked[i].message}

\* Calls i and k are for one message, and from i to k every occurrence of
\* the message came at most the window after the one before it.
RepeatedWithinWindow(i, k) ==
    /\ i < k
    /\ checked[k].message = checked[i].message
    /\ \A q \in OccurrencesBetween(i, k) \ {i} :
          checked[q].at - checked[LastOccurrence(q)].at <= dedupe.window

\* C38: in windowed mode every suppressed repeat refreshes the last-seen
\* time, so the window is measured from the most recent occurrence: after
\* an emitted occurrence, a message repeated at intervals of at most the
\* window is never emitted again, however long the repetition lasts, while
\* its count grows by one with each repeat and its last-seen time is that
\* of the repeat.
C38_RepeatsKeepTheWindowOpen ==
    dedupe.window > 0 =>
        \A i, k \in 1..Len(checked) :
            (RepeatedWithinWindow(i, k) /\ checked[i].result.ShouldEmit) =>
                LET r == checked[k].result
                IN  /\ ~r.ShouldEmit
                    /\ r.Count = Cardinality(OccurrencesBetween(i, k))
                    /\ r.FirstSeen = checked[i].at
                    /\ r.LastSeen = checked[k].at
                    /\ (k = Len(checked) =>
                          dedupe.seen[checked[k].message].lastSeen = checked[k].at)

\* A message repeated every second with a window of one second: the third
\* occurrence, two seconds after the emitted one, is suppressed.
C38_Witness ==
    /\ dedupe.window = 1
    /\ Len(checked) = 4
    /\ \A i \in 1..4 : checked[i].message = "A" /\ checked[i].at = i - 1
    /\ checked[1].result.ShouldEmit
    /\ ~checked[3].result.ShouldEmit
    /\ checked[4].result.Count = 4
    /\ ~checked[4].result.ShouldEmit

-----------------------------------------------------------------------------
(* Properties of the log lines of the watch loop *)

\* C39: the watch loop writes one log line per entry the streamer sent and
\* none for an entry it did not send: the log lines written never outnumber
\* the entries sent, and each is the line of an entry with a level, which
\* the zero value received from a closed channel has not.
C39_LogLinesOnlyForSentEntries ==
    /\ Cardinality(LogLines) <= watch.sent
    /\ \A k \in LogLines : stdout[k].level \in Levels

-----------------------------------------------------------------------------
(* Properties of a failed rotation *)

\* This step is an Open that returned an error: the rotation has a path
\* builder, the session was taken and no file was created.
OpenFailed ==
    /\ rotation.pathBuilder
    /\ rotation'.session = rotation.session + 1
    /\ Len(files') = Len(files)

\* C40: when Open fails the rotation is left in a consistent state: neither
\* its buffered writer nor its file handle refers to a closed file, so
\* that no later Write, Open or Close reaches a closed file.
C40_FailedOpenLeavesNoStaleHandle ==
    [][OpenFailed =>
        /\ rotation'.bufferedWriter # 0 => files'[rotation'.bufferedWriter].open
        /\ rotation'.outputFile # 0 => files'[rotation'.outputFile].open
      ]_vars

====
